---- MODULE Spec2Model ----
(***************************************************************************)
(* Group-response collection and quorum-gated waiting of the repository:   *)
(*   - InteractiveAgent (src/src/agents/interactive-agent.ts): sends a     *)
(*     question to the group chat, watches inbound messages, keeps the     *)
(*     first message of every sender and polls until somebody answered or  *)
(*     the timeout elapsed; askConfirmation turns the replies into a       *)
(*     majority-of-roster decision.                                        *)
(*   - CalendarOAuthManager (src/src/agents/calendar-oauth.ts): records a  *)
(*     calendar connection per OAuth callback and polls until a fraction   *)
(*     of the expected participants has connected or the timeout elapsed.  *)
(*   - cleanInteractivePlanner (src/examples/clean-interactive-planner.ts):*)
(*     resolves the replies of a stage to a menu index or a budget tier    *)
(*     and announces the outcome of the final confirmation.                *)
(*   - InteractiveHolidayPlanner.startPlanning and analyzeBudget, and the  *)
(*     budget step of examples/simple-trial.ts: the date choice and the    *)
(*     budget tier as functions of the replies.                            *)
(*   - CalendarAgent.findCommonFreeSlots: the slots computed from the busy *)
(*     periods of the participants' calendars.                             *)
(*                                                                         *)
(* Time is counted in quanta of 180 000 ms. The two poll sleeps (1 000 ms  *)
(* and 2 000 ms) are shorter than a quantum, so a sleeping loop may wake   *)
(* at any clock value; setTimeout gives no upper bound on the delay.       *)
(* Texts are sequences of one-character strings, so that toLowerCase,      *)
(* trim and includes are computed and not assumed.                         *)
(***************************************************************************)
EXTENDS Integers, Sequences, FiniteSets, TLC

\* ------------------------------------------------------------------ bounds
\* Inbound messages handed to the watcher over one session.
MaxMsgs == 3
\* Collections (askGroupQuestion / askConfirmation calls) of one session.
MaxStages == 2
\* Longest roster; rosters are the prefixes of AllEmails of length
\* MaxRoster - 1 and MaxRoster (one odd and one even size).
MaxRoster == 4
\* Largest timeout argument, in quanta.
MaxTimeout == 1
\* OAuth callback requests of one session.
MaxCallbacks == 2

\* Replies one stage's collection returned to the planner.
MaxReplies == 4
\* Participants who answer one question of a session.
MaxRepliers == 2
\* Hours of the window findFreeTime searches (startDate is hour 0).
Horizon == 4
\* Calendars of one free/busy answer.
MaxCalendars == 2
\* Busy periods of one calendar.
MaxBusy == 2
\* Longest duration asked for, in hours.
MaxDuration == 2

\* ------------------------------------------------------- program constants
\* while (respondedParticipants.size < 1)
MinResponses == 1
\* waitForResponses(180000): 180 000 ms = 1 quantum
ConfirmTimeout == 1

\* .filter(c => c >= 1 && c <= 3): the date stage offers three Saturdays
DateOptions == 3
\* locationResult.locations.slice(0, 3), restaurantResult.restaurants.slice(0, 3)
MaxOptions == 3

\* ------------------------------------------------------------------- texts
THUMBSUP == "thumbsup"   \* the single code point U+1F44D
Lower(c) ==
    CASE c = "Y" -> "y" [] c = "E" -> "e" [] c = "S" -> "s"
      [] c = "N" -> "n" [] c = "O" -> "o" [] c = "H" -> "h"
      [] c = "I" -> "i" [] c = "G" -> "g" [] c = "L" -> "l"
      [] c = "W" -> "w" [] OTHER -> c

ToLowerCase(t) == [i \in 1..Len(t) |-> Lower(t[i])]

RECURSIVE TrimStart(_)
TrimStart(t) == IF t # <<>> /\ Head(t) = " " THEN TrimStart(Tail(t)) ELSE t

RECURSIVE TrimEnd(_)
TrimEnd(t) ==
    IF t # <<>> /\ t[Len(t)] = " " THEN TrimEnd(SubSeq(t, 1, Len(t) - 1)) ELSE t

Trim(t) == TrimEnd(TrimStart(t))

Includes(t, pat) ==
    \E i \in 0..(Len(t) - Len(pat)) : SubSeq(t, i + 1, i + Len(pat)) = pat

TextYes == <<"Y", "e", "s">>
TextNo == <<"n", "o">>
Texts == {TextYes, TextNo}

\* -------------------------------------------------------------- identities
AllEmails == <<"a", "b", "c", "d", "e", "f">>
Prefix(n) == SubSeq(AllEmails, 1, n)
Rosters == {Prefix(MaxRoster - 1), Prefix(MaxRoster)}
Range(s) == {s[i] : i \in 1..Len(s)}

\* ------------------------------------------------- Map<string, V> (ordered)
\* A JavaScript Map iterates in insertion order; set() of an existing key
\* keeps the key's position.  A map is a sequence of [key, value] records.
MapKeys(m) == {m[i].key : i \in 1..Len(m)}
MapHas(m, k) == k \in MapKeys(m)
MapSet(m, k, v) ==
    IF MapHas(m, k)
    THEN [i \in 1..Len(m) |-> IF m[i].key = k THEN [key |-> k, value |-> v] ELSE m[i]]
    ELSE Append(m, [key |-> k, value |-> v])

VARIABLES
    \* ---- InteractiveAgent
    participants,           \* this.participants
    pc,                     \* position of the caller inside the agent
    kind,                   \* "question" | "confirmation": the running call
    timeout,                \* waitForResponses(timeout)
    elapsed,                \* Date.now() - startTime
    watching,               \* the sdk watcher delivers to onNewMessage
    responses,              \* const responses = new Map<string, string>()
    respondedParticipants,  \* const respondedParticipants = new Set<string>()
    result,                 \* the map waitForResponses returned
    confirmation,           \* what askConfirmation returned
    sent,                   \* messages the agent sent to the group chat
    exitReason,             \* how the wait loop of the running call ended
    log,                    \* history: messages delivered to this call's handler
    prevResult,             \* history: the map the previous call returned
    stage,                  \* history: calls started
    delivered,              \* history: inbound messages of the session
    \* ---- CalendarOAuthManager
    connections,            \* this.connections: Map<string, CalendarConnection>
    expectedParticipants,   \* this.expectedParticipants (Undefined until a wait)
    server,                 \* this.server: "none" | "listening" | "closed"
    notifyConfigured,       \* this.imessageClient && this.groupChatId
    pending,                \* callbacks awaiting oauth2Client.getToken(code)
    notifications,          \* "... connected their calendar! (n connected)"
    wpc,                    \* position inside waitForConnections
    minThreshold,           \* waitForConnections(.., .., minThreshold)
    minRequired,            \* const minRequired
    wTimeout,               \* waitForConnections(.., timeout, ..)
    wElapsed,               \* Date.now() - startTime
    waitOutcome,            \* which break ended the loop
    waitResult,             \* the map waitForConnections returned
    callbacks,              \* history: callback requests received
    stored,                 \* history: the exchange resolved last stored a record
    \* ---- cleanInteractivePlanner (one stage's aggregation)
    stageReplies,           \* the map askGroupQuestion / waitForResponses returned
    outcome,                \* what the stage resolved the replies to
    \* ---- cleanInteractivePlanner (the session from welcome to exit)
    step,                   \* the statement of the pipeline that runs next
    session,                \* "running" | "catch" | "exit0" | "exit1" | "rejected"
    waitpc,                 \* position inside the running waitForResponses
    subscriptions,          \* watchers started and not stopped
    clock,                  \* Date.now() - startTime of the running wait
    collected,              \* reply texts of the stages asked and not yet parsed
    results,                \* what the collaborators returned, until its last use
    resolved,               \* chosenIndex, userPreferences, ..., confirmation
    channel,                \* messages the session put on the group channel
    fatal,                  \* history: what sent the session into its catch
    \* ---- CalendarAgent
    query,                  \* the free/busy answer and the arguments of findFreeTime
    freeTime                \* the FreeTimeResult findFreeTime returned

agentVars ==
    <<participants, pc, kind, timeout, elapsed, watching, responses,
      respondedParticipants, result, confirmation, sent, exitReason, log,
      prevResult, stage, delivered>>

oauthVars ==
    <<connections, expectedParticipants, server, notifyConfigured, pending,
      notifications, wpc, minThreshold, minRequired, wTimeout, wElapsed,
      waitOutcome, waitResult, callbacks, stored>>

plannerVars == <<stageReplies, outcome>>

pipelineVars ==
    <<step, session, waitpc, subscriptions, clock, collected, results, resolved,
      channel, fatal>>

calendarVars == <<query, freeTime>>

vars == <<agentVars, oauthVars, plannerVars, pipelineVars, calendarVars>>

\* ------------------------------------------------------- InteractiveAgent
groupChatId == "chat1"
otherChatId == "chat2"

Msg(c, me, s, h, t) ==
    [chatId |-> c, isFromMe |-> me, sender |-> s, handle |-> h, text |-> t]

\* What the watcher may hand to onNewMessage: replies of two group members
\* (b's "no" comes with the handle in place of the sender field), a message
\* of the bot itself, a message of another chat, and a message with neither
\* sender nor handle.
Inbound ==
    {Msg(groupChatId, FALSE, "a", "", t) : t \in Texts}
      \cup {Msg(groupChatId, FALSE, "b", "", TextYes),
            Msg(groupChatId, TRUE, "a", "", TextYes),
            Msg(otherChatId, FALSE, "a", "", TextYes),
            Msg(groupChatId, FALSE, "", "b", TextNo),
            Msg(groupChatId, FALSE, "", "", TextYes)}

\* message.sender || message.handle || 'user'
SenderOf(message) ==
    IF message.sender # "" THEN message.sender
    ELSE IF message.handle # "" THEN message.handle
    ELSE "user"

\* The handler leaves its map alone for another chat's and the bot's messages.
Accepted(message) == message.chatId = groupChatId /\ ~message.isFromMe

AgentInit ==
    /\ participants \in Rosters
    /\ pc = "idle"
    /\ kind = "none"
    /\ timeout = 0
    /\ elapsed = 0
    /\ watching = FALSE
    /\ responses = <<>>
    /\ respondedParticipants = {}
    /\ result = <<>>
    /\ confirmation = [confirmed |-> FALSE, responses |-> <<>>]
    /\ sent = <<>>
    /\ exitReason = "none"
    /\ log = <<>>
    /\ prevResult = <<>>
    /\ stage = 0
    /\ delivered = 0

\* onNewMessage (the closure of waitForResponses): the maps after the call.
OnNewMessageOverwrites(message, resp, responded) ==
    IF ~Accepted(message) THEN [responses |-> resp, responded |-> responded]
    ELSE [responses |-> MapSet(resp, SenderOf(message), message.text),
          responded |-> responded \cup {SenderOf(message)}]

OnNewMessageAnyChat(message, resp, responded) ==
    IF message.isFromMe THEN [responses |-> resp, responded |-> responded]
    ELSE LET sender == SenderOf(message) IN
         IF sender \notin responded
         THEN [responses |-> MapSet(resp, sender, message.text),
               responded |-> responded \cup {sender}]
         ELSE [responses |-> resp, responded |-> responded]

OnNewMessage(message, resp, responded) ==
    IF message.chatId # groupChatId THEN [responses |-> resp, responded |-> responded]
    ELSE IF message.isFromMe THEN [responses |-> resp, responded |-> responded]
    ELSE LET sender == SenderOf(message) IN
         IF sender \notin responded
         THEN [responses |-> MapSet(resp, sender, message.text),
               responded |-> responded \cup {sender}]
         ELSE [responses |-> resp, responded |-> responded]

\* One evaluation of the wait loop: the loop condition, then the deadline.
WaitDecisionDeadlineInclusive(size, el, to) ==
    IF size < MinResponses
    THEN (IF el >= to THEN "timeout" ELSE "sleep")
    ELSE "enough"

WaitDecisionNeedsTwo(size, el, to) ==
    IF size < MinResponses + 1
    THEN (IF el > to THEN "timeout" ELSE "sleep")
    ELSE "enough"

WaitDecisionNoDeadline(size, el, to) ==
    IF size < MinResponses THEN "sleep" ELSE "enough"

WaitDecisionDeadlineFirst(size, el, to) ==
    IF el > to THEN "timeout"
    ELSE IF size < MinResponses THEN "sleep"
    ELSE "enough"

WaitDecision(size, el, to) ==
    IF size < MinResponses
    THEN (IF el > to THEN "timeout" ELSE "sleep")
    ELSE "enough"

\* After the loop: this.sdk.stopWatching(); return responses.
AfterLoopThrowsOnTimeout(decision) ==
    IF decision = "timeout" THEN "threw" ELSE "returned"

AfterLoop(decision) == "returned"

\* response.toLowerCase().trim(), then the three tests of askConfirmation.
\* (const normalized is computed once and then read by the three tests.)
IsYesCaseSensitive(response) ==
    \E normalized \in {Trim(response)} :
        \/ Includes(normalized, <<"y", "e", "s">>)
        \/ Includes(normalized, <<THUMBSUP>>)
        \/ normalized = <<"y">>

IsYes(response) ==
    \E normalized \in {Trim(ToLowerCase(response))} :
        \/ Includes(normalized, <<"y", "e", "s">>)
        \/ Includes(normalized, <<THUMBSUP>>)
        \/ normalized = <<"y">>

Confirmations(resps) ==
    [i \in 1..Len(resps) |-> [key |-> resps[i].key, value |-> IsYes(resps[i].value)]]

YesCount(resps) == Cardinality({i \in 1..Len(resps) : IsYes(resps[i].value)})

\* Math.ceil(n / 2)
CeilHalf(n) == (n + 1) \div 2

ConfirmedOfRespondents(yesCount, resps, roster) == yesCount >= CeilHalf(Len(resps))

Confirmed(yesCount, resps, roster) == yesCount >= CeilHalf(Len(roster))

NoConfirmation == [confirmed |-> FALSE, responses |-> <<>>]

\* A fresh collection: lines 84-89 of waitForResponses.
NewResponsesKeepsPrevious(old) == old

NewResponses(old) == <<>>

\* await this.client.send(this.groupChatId, question): the messages of the
\* group chat after the prompt of call st went out.
SendPromptAgain(sentSoFar, st, k) ==
    sentSoFar \o <<[stage |-> st, kind |-> k], [stage |-> st, kind |-> k]>>

SendPrompt(sentSoFar, st, k) == Append(sentSoFar, [stage |-> st, kind |-> k])

\* askGroupQuestion / askConfirmation up to the first evaluation of the loop:
\* the prompt is sent (client.send rethrows a failure), then the maps are
\* created and the watcher is started.
Ask(k, t, sendOk) ==
    /\ pc \in {"idle", "returned"}
    /\ stage < MaxStages
    /\ stage' = stage + 1
    /\ kind' = k
    /\ timeout' = t
    /\ prevResult' = result
    /\ exitReason' = "none"
    /\ log' = <<>>
    /\ elapsed' = 0
    /\ confirmation' = NoConfirmation
    /\ IF sendOk
       THEN /\ sent' = SendPrompt(sent, stage + 1, k)
            /\ responses' = NewResponses(responses)
            /\ respondedParticipants' = {}
            /\ watching' = TRUE
            /\ pc' = "check"
       ELSE /\ pc' = "threw"
            /\ UNCHANGED <<sent, responses, respondedParticipants, watching>>
    /\ UNCHANGED <<participants, result, delivered>>
    /\ UNCHANGED <<oauthVars, plannerVars, pipelineVars, calendarVars>>

AskGroupQuestion == \E t \in 0..MaxTimeout, sendOk \in BOOLEAN : Ask("question", t, sendOk)

AskConfirmation == \E sendOk \in BOOLEAN : Ask("confirmation", ConfirmTimeout, sendOk)

\* The watcher hands one inbound message to onNewMessage.
DeliverAfterStop ==
    /\ delivered < MaxMsgs
    /\ \E message \in Inbound :
         LET after == OnNewMessage(message, responses, respondedParticipants) IN
           /\ responses' = after.responses
           /\ respondedParticipants' = after.responded
           /\ log' = Append(log, message)
    /\ delivered' = delivered + 1
    /\ UNCHANGED <<participants, pc, kind, timeout, elapsed, watching, result,
                   confirmation, sent, exitReason, prevResult, stage>>
    /\ UNCHANGED <<oauthVars, plannerVars, pipelineVars, calendarVars>>

Deliver ==
    /\ watching
    /\ delivered < MaxMsgs
    /\ \E message \in Inbound :
         LET after == OnNewMessage(message, responses, respondedParticipants) IN
           /\ responses' = after.responses
           /\ respondedParticipants' = after.responded
           /\ log' = Append(log, message)
    /\ delivered' = delivered + 1
    /\ UNCHANGED <<participants, pc, kind, timeout, elapsed, watching, result,
                   confirmation, sent, exitReason, prevResult, stage>>
    /\ UNCHANGED <<oauthVars, plannerVars, pipelineVars, calendarVars>>

\* The clock advances while a wait reads it; past the deadline its value no
\* longer changes what the loop does, so it stops one quantum after it.
Tick ==
    /\ pc \in {"check", "sleep"}
    /\ elapsed <= timeout
    /\ elapsed' = elapsed + 1
    /\ UNCHANGED <<participants, pc, kind, timeout, watching, responses,
                   respondedParticipants, result, confirmation, sent, exitReason,
                   log, prevResult, stage, delivered>>
    /\ UNCHANGED <<oauthVars, plannerVars, pipelineVars, calendarVars>>

\* One evaluation of the loop of waitForResponses and, when the loop ends,
\* the rest of the call (stopWatching, return; askConfirmation's tally).
Poll ==
    /\ pc = "check"
    /\ LET decision == WaitDecision(Cardinality(respondedParticipants), elapsed, timeout) IN
         IF decision = "sleep"
         THEN /\ pc' = "sleep"
              /\ UNCHANGED <<watching, result, confirmation, exitReason>>
         ELSE /\ exitReason' = decision
              /\ watching' = FALSE
              /\ pc' = AfterLoop(decision)
              /\ IF AfterLoop(decision) = "returned"
                 THEN /\ result' = responses
                      /\ confirmation' =
                           IF kind = "confirmation"
                           THEN [confirmed |-> Confirmed(YesCount(responses), responses,
                                                         participants),
                                 responses |-> Confirmations(responses)]
                           ELSE NoConfirmation
                 ELSE UNCHANGED <<result, confirmation>>
    /\ UNCHANGED <<participants, kind, timeout, elapsed, responses,
                   respondedParticipants, sent, log, prevResult, stage, delivered>>
    /\ UNCHANGED <<oauthVars, plannerVars, pipelineVars, calendarVars>>

\* await new Promise(resolve => setTimeout(resolve, 1000)) resolves.
Wake ==
    /\ pc = "sleep"
    /\ pc' = "check"
    /\ UNCHANGED <<participants, kind, timeout, elapsed, watching, responses,
                   respondedParticipants, result, confirmation, sent, exitReason,
                   log, prevResult, stage, delivered>>
    /\ UNCHANGED <<oauthVars, plannerVars, pipelineVars, calendarVars>>

\* The planner after the final askConfirmation returned: "PLAN CONFIRMED!
\* Everyone has approved the plan!" when confirmation.confirmed, the request
\* for changes otherwise; the run ends there.  A failing send puts nothing
\* on the channel.
PLAN_CONFIRMED == "PLAN CONFIRMED"
NEEDS_CHANGES == "needs changes"

SendFinalConfirmation ==
    /\ pc = "returned"
    /\ kind = "confirmation"
    /\ pc' = "finished"
    /\ \E sendOk \in BOOLEAN :
         IF sendOk
         THEN sent' = Append(sent, [stage |-> stage,
                                    kind |-> IF confirmation.confirmed
                                             THEN PLAN_CONFIRMED
                                             ELSE NEEDS_CHANGES])
         ELSE UNCHANGED sent
    /\ UNCHANGED <<participants, kind, timeout, elapsed, watching, responses,
                   respondedParticipants, result, confirmation, exitReason, log,
                   prevResult, stage, delivered>>
    /\ UNCHANGED <<oauthVars, plannerVars, pipelineVars, calendarVars>>

NextAgent ==
    \/ AskGroupQuestion
    \/ AskConfirmation
    \/ Deliver
    \/ Tick
    \/ Poll
    \/ Wake

\* ------------------------------------------------ cleanInteractivePlanner
\* The aggregations the planner applies to the map a stage's collection
\* returned (examples/clean-interactive-planner.ts), and the tally of
\* askConfirmation, as functions of the replies in arrival order.
\* Array.from(map.values())
MapValues(m) == [i \in 1..Len(m) |-> m[i].value]

Digits == <<"0", "1", "2", "3", "4", "5", "6", "7", "8", "9">>
IsDigit(c) == \E d \in 1..Len(Digits) : Digits[d] = c
DigitValue(c) == (CHOOSE d \in 1..Len(Digits) : Digits[d] = c) - 1

\* A JavaScript number that is NaN or an integer.
NaN == [nan |-> TRUE, val |-> 0]
Num(n) == [nan |-> FALSE, val |-> n]

RECURSIVE DigitCount(_)
DigitCount(t) ==
    IF t # <<>> /\ IsDigit(Head(t)) THEN 1 + DigitCount(Tail(t)) ELSE 0

RECURSIVE Decimal(_, _)
Decimal(t, n) == IF n = 0 THEN 0 ELSE Decimal(t, n - 1) * 10 + DigitValue(t[n])

\* parseInt(string) without a radix, for strings that do not start with 0x:
\* leading white space is skipped, a sign is read, then the longest run of
\* decimal digits; what follows is ignored; no digit gives NaN.
ParseInt(t) ==
    LET s == TrimStart(t)
        signed == s # <<>> /\ Head(s) \in {"-", "+"}
        body == IF signed THEN Tail(s) ELSE s
        n == DigitCount(body)
    IN IF n = 0 THEN NaN
       ELSE IF signed /\ Head(s) = "-" THEN Num(0 - Decimal(body, n))
       ELSE Num(Decimal(body, n))

\* c >= 1 && c <= count; every comparison with NaN is false.
InRangeNoUpperBound(c, count) == ~c.nan /\ c.val >= 1

InRange(c, count) == ~c.nan /\ c.val >= 1 /\ c.val <= count

\* .map(c => parseInt(c.trim())).filter(c => c >= 1 && c <= count)
ValidChoicesAllOrNothing(values, count) ==
    LET parsed == [i \in 1..Len(values) |-> ParseInt(Trim(values[i]))] IN
        IF \A i \in 1..Len(parsed) : InRange(parsed[i], count)
        THEN [i \in 1..Len(parsed) |-> parsed[i].val]
        ELSE <<>>

ValidChoices(values, count) ==
    LET parsed == [i \in 1..Len(values) |-> ParseInt(Trim(values[i]))]
        kept == SelectSeq(parsed, LAMBDA c : InRange(c, count))
    IN [i \in 1..Len(kept) |-> kept[i].val]

\* choices.reduce((a, b) => a + b)
RECURSIVE Sum(_)
Sum(cs) == IF cs = <<>> THEN 0 ELSE Head(cs) + Sum(Tail(cs))

\* Math.round(num / den) for num >= 0, den > 0: halves round up.  The
\* quotients of the small integers met here are exact or away from a half
\* by more than the rounding error of the division.
Round(num, den) == (2 * num + den) \div (2 * den)

\* choices.length > 0 ? Math.round(sum / choices.length) - 1 : 0
MeanChoiceTruncates(values, count) ==
    LET choices == ValidChoices(values, count) IN
        IF Len(choices) > 0 THEN (Sum(choices) \div Len(choices)) - 1 ELSE 0

MeanChoice(values, count) ==
    LET choices == ValidChoices(values, count) IN
        IF Len(choices) > 0 THEN Round(Sum(choices), Len(choices)) - 1 ELSE 0

\* locChoices.length > 0 ? locChoices[0] - 1 : 0
FirstChoiceOfFirstReply(values, count) ==
    LET choices == ValidChoices(IF values = <<>> THEN <<>> ELSE <<Head(values)>>, count) IN
        IF Len(choices) > 0 THEN choices[1] - 1 ELSE 0

FirstChoice(values, count) ==
    LET choices == ValidChoices(values, count) IN
        IF Len(choices) > 0 THEN choices[1] - 1 ELSE 0

\* budgetVals.some(b => b.toLowerCase().includes(word))
SomeIncludes(values, word) ==
    \E i \in 1..Len(values) : Includes(ToLowerCase(values[i]), word)

WordHigh == <<"h", "i", "g", "h">>
WordLow == <<"l", "o", "w">>

BudgetLowFirst(values) ==
    IF SomeIncludes(values, WordLow) THEN "low"
    ELSE IF SomeIncludes(values, WordHigh) THEN "high"
    ELSE "medium"

Budget(values) ==
    IF SomeIncludes(values, WordHigh) THEN "high"
    ELSE IF SomeIncludes(values, WordLow) THEN "low"
    ELSE "medium"

\* What group members may type in answer to a numeric menu, to the budget
\* question and to the confirmation question.
NumericTexts ==
    {<<"1">>, <<"2">>, <<"3">>, <<"5">>, <<"1", "2">>, <<"a", "b", "c">>,
     <<" ", "2", "x">>}

BudgetTexts ==
    {<<"H", "i", "g", "h">>, <<"l", "o", "w">>, <<"L", "O", "W", "!">>,
     <<"m", "e", "d">>, <<"l", "o", "w", "H", "I", "G", "H">>}

ConfirmTexts ==
    {TextYes, TextNo, <<" ", "Y", " ">>, <<"o", "k", THUMBSUP>>, <<"y", "o">>,
     <<"n", "Y", "E", "S">>, <<"y", " ", "e", "s">>}

SeqsUpTo(S, n) == UNION {[1..k -> S] : k \in 0..n}

\* The returned map: the k-th sender to reply is AllEmails[k].
MapOf(texts) == [i \in 1..Len(texts) |-> [key |-> AllEmails[i], value |-> texts[i]]]

ReplyMaps ==
    {MapOf(texts) : texts \in SeqsUpTo(NumericTexts, MaxReplies)
                               \cup SeqsUpTo(BudgetTexts, MaxReplies)
                               \cup SeqsUpTo(ConfirmTexts, MaxReplies)}

NoOutcome == [stage |-> "none"]

\* No stage of the planner has replies in hand.
PlannerIdle ==
    /\ stageReplies = <<>>
    /\ outcome = NoOutcome

\* STEP 3, date: the rounded mean of the valid choices.
ParseDateChoice ==
    /\ outcome = NoOutcome
    /\ outcome' = [stage |-> "date", options |-> DateOptions,
                   value |-> MeanChoice(MapValues(stageReplies), DateOptions)]
    /\ UNCHANGED <<stageReplies, agentVars, oauthVars, pipelineVars,
                 calendarVars>>

\* STEP 5, location: the first valid choice among locationList.length options.
ParseLocationChoice ==
    /\ outcome = NoOutcome
    /\ \E count \in 1..MaxOptions :
         outcome' = [stage |-> "location", options |-> count,
                     value |-> FirstChoice(MapValues(stageReplies), count)]
    /\ UNCHANGED <<stageReplies, agentVars, oauthVars, pipelineVars,
                 calendarVars>>

\* STEP 7, restaurant: the first valid choice among restaurantList.length.
ParseRestaurantChoice ==
    /\ outcome = NoOutcome
    /\ \E count \in 1..MaxOptions :
         outcome' = [stage |-> "restaurant", options |-> count,
                     value |-> FirstChoice(MapValues(stageReplies), count)]
    /\ UNCHANGED <<stageReplies, agentVars, oauthVars, pipelineVars,
                 calendarVars>>

\* STEP 6, budget tier.
ParseBudget ==
    /\ outcome = NoOutcome
    /\ outcome' = [stage |-> "budget", value |-> Budget(MapValues(stageReplies))]
    /\ UNCHANGED <<stageReplies, agentVars, oauthVars, pipelineVars,
                 calendarVars>>

\* askConfirmation after waitForResponses returned: the map of booleans and
\* the decision.
TallyConfirmation ==
    /\ outcome = NoOutcome
    /\ outcome' = [stage |-> "confirmation",
                   confirmed |-> Confirmed(YesCount(stageReplies), stageReplies,
                                           participants),
                   responses |-> Confirmations(stageReplies)]
    /\ UNCHANGED <<stageReplies, agentVars, oauthVars, pipelineVars,
                 calendarVars>>

NextPlanner ==
    \/ ParseDateChoice
    \/ ParseLocationChoice
    \/ ParseRestaurantChoice
    \/ ParseBudget
    \/ TallyConfirmation

\* ------------------------------- InteractiveHolidayPlanner, simple trial
\* The date choice of InteractiveHolidayPlanner.startPlanning and the
\* budget classifiers of analyzeBudget and of examples/simple-trial.ts, as
\* functions of the replies in arrival order.
\* findCommonFreeSlots returns slots.slice(0, 5).
TopSlots == 5
\* freeTimeSlots.availableSlots.slice(0, 3): the slots listed in the prompt.
OfferedSlots == 3
\* .filter(c => c >= 1 && c <= 3)
SlotChoices == 3

\* availableSlots.slice(0, 3).length
Offered(available) == IF available < OfferedSlots THEN available ELSE OfferedSlots

\* STEP 1 of startPlanning once askGroupQuestion returned: chosenIndex and
\* freeTimeSlots.availableSlots[chosenIndex], which is undefined past the
\* end of the array; reading chosenSlot.date then throws.
ChooseDate ==
    /\ outcome = NoOutcome
    /\ \E available \in 1..TopSlots :
         LET chosenIndex == FirstChoice(MapValues(stageReplies), SlotChoices) IN
           outcome' = [stage |-> "slot", available |-> available,
                       options |-> Offered(available), value |-> chosenIndex,
                       thrown |-> chosenIndex >= available]
    /\ UNCHANGED <<stageReplies, agentVars, oauthVars, pipelineVars,
                 calendarVars>>

\* Array.from(responses.values()).join('\n')
RECURSIVE Join(_)
Join(values) ==
    IF values = <<>> THEN <<>>
    ELSE IF Len(values) = 1 THEN Head(values)
    ELSE Head(values) \o <<"\n">> \o Join(Tail(values))

WordCheap == <<"c", "h", "e", "a", "p">>
WordExpensive == <<"e", "x", "p", "e", "n", "s", "i", "v", "e">>

\* analyzeBudget: the joined, lower-cased text is searched for low first.
AnalyzeBudgetOf(values) ==
    LET responsesText == ToLowerCase(Join(values)) IN
        IF Includes(responsesText, WordLow) \/ Includes(responsesText, WordCheap)
        THEN "low"
        ELSE IF Includes(responsesText, WordHigh)
                \/ Includes(responsesText, WordExpensive)
        THEN "high"
        ELSE "medium"

\* simple-trial.ts: only budgetVals[0] is read.
TrialBudgetOf(budgetVals) ==
    IF Len(budgetVals) > 0 /\ Includes(ToLowerCase(budgetVals[1]), WordHigh)
    THEN "high"
    ELSE IF Len(budgetVals) > 0 /\ Includes(ToLowerCase(budgetVals[1]), WordLow)
    THEN "low"
    ELSE "medium"

\* The budget step of startPlanning.
AnalyzeBudget ==
    /\ outcome = NoOutcome
    /\ outcome' = [stage |-> "budget", by |-> "holiday",
                   value |-> AnalyzeBudgetOf(MapValues(stageReplies))]
    /\ UNCHANGED <<stageReplies, agentVars, oauthVars, pipelineVars,
                 calendarVars>>

\* The budget step of the simple trial.
TrialBudget ==
    /\ outcome = NoOutcome
    /\ outcome' = [stage |-> "budget", by |-> "trial",
                   value |-> TrialBudgetOf(MapValues(stageReplies))]
    /\ UNCHANGED <<stageReplies, agentVars, oauthVars, pipelineVars,
                 calendarVars>>

\* What group members may type in answer to the budget question when they
\* use the three words of the prompt.
WordTexts ==
    {<<"h", "i", "g", "h">>, <<"l", "o", "w">>, <<"L", "O", "W">>,
     <<"m", "e", "d", "i", "u", "m">>}

HolidayReplyMaps ==
    {MapOf(texts) : texts \in SeqsUpTo(NumericTexts, MaxReplies)
                               \cup SeqsUpTo(WordTexts, MaxReplies)}

NextHoliday ==
    \/ ChooseDate
    \/ AnalyzeBudget
    \/ TrialBudget
    \/ ParseBudget

\* ----------------------------------------------------------- CalendarAgent
\* findFreeTime with the Google Calendar API at hand.  Instants are whole
\* hours counted from startDate; the process runs in UTC, so toISOString and
\* toTimeString read the same clock.
Day == 24

\* A busy period of a free/busy answer: { start, end } with start < end,
\* inside the window that was asked for.
Periods == {[start |-> a, end |-> b] : a \in 0..Horizon, b \in 0..Horizon}

\* calendar.busy: the periods of one calendar, in order and apart.
BusyLists ==
    {bs \in SeqsUpTo({p \in Periods : p.start < p.end}, MaxBusy) :
        \A i \in 1..(Len(bs) - 1) : bs[i].end < bs[i + 1].start}

\* freeBusyResponse.data.calendars, in the order for...in visits its keys.
CalendarSets == SeqsUpTo(BusyLists, MaxCalendars)

NoQuery == [calendars |-> <<>>, startDate |-> 0, endDate |-> 0, duration |-> 0]
NoFreeTime == [source |-> "none"]

\* No search for free time is under way.
CalendarIdle ==
    /\ query = NoQuery
    /\ freeTime = NoFreeTime

\* for (const email in calendars) ... allBusyPeriods.push(...)
RECURSIVE AllBusyPeriods(_)
AllBusyPeriods(calendars) ==
    IF calendars = <<>> THEN <<>>
    ELSE Head(calendars) \o AllBusyPeriods(Tail(calendars))

\* allBusyPeriods.sort((a, b) => a.start.getTime() - b.start.getTime()):
\* Array.prototype.sort is stable.
RECURSIVE InsertByStart(_, _)
InsertByStart(sorted, p) ==
    IF sorted = <<>> THEN <<p>>
    ELSE IF p.start < Head(sorted).start THEN <<p>> \o sorted
    ELSE <<Head(sorted)>> \o InsertByStart(Tail(sorted), p)

RECURSIVE SortByStart(_)
SortByStart(ps) ==
    IF ps = <<>> THEN <<>>
    ELSE InsertByStart(SortByStart(SubSeq(ps, 1, Len(ps) - 1)), ps[Len(ps)])

\* { date: toISOString().split('T')[0], start: toTimeString().slice(0, 5),
\*   end: slotEndTime.toTimeString().slice(0, 5) }
Slot(currentTime, durationMs) ==
    [date |-> currentTime \div Day,
     start |-> currentTime % Day,
     end |-> (currentTime + durationMs) % Day]

\* The while loop of findCommonFreeSlots from currentTime on.
RECURSIVE SlotsFrom(_, _, _, _)
SlotsFrom(currentTime, endTime, allBusyPeriods, durationMs) ==
    IF ~(currentTime < endTime) THEN <<>>
    ELSE LET later == SelectSeq(allBusyPeriods, LAMBDA busy : busy.start > currentTime)
             found == later # <<>>
             slotEnd == IF found THEN Head(later).start ELSE endTime
             availableDuration == slotEnd - currentTime
             next == IF found THEN Head(later).end ELSE endTime
         IN (IF availableDuration >= durationMs
             THEN <<Slot(currentTime, durationMs)>>
             ELSE <<>>)
            \o SlotsFrom(next, endTime, allBusyPeriods, durationMs)

\* slots.slice(0, 5)
Slice(seq, n) == SubSeq(seq, 1, IF Len(seq) < n THEN Len(seq) ELSE n)

FindCommonFreeSlots(calendars, startDate, endDate, duration) ==
    Slice(SlotsFrom(startDate, endDate, SortByStart(AllBusyPeriods(calendars)),
                    duration),
          TopSlots)

\* What the model may suggest when the free/busy query failed.
Suggestions(q) == {<<>>, <<Slot(q.startDate, q.duration)>>}

\* findFreeTimeFromCalendar: the free/busy query, then findCommonFreeSlots;
\* a failing query falls back to findFreeTimeWithLLM.
FindFreeTimeFromCalendar ==
    /\ freeTime = NoFreeTime
    /\ query # NoQuery
    /\ \E apiOk \in BOOLEAN :
         IF apiOk
         THEN LET freeSlots == FindCommonFreeSlots(query.calendars, query.startDate,
                                                   query.endDate, query.duration)
              IN freeTime' = [source |-> "calendar", availableSlots |-> freeSlots]
         ELSE \E suggested \in Suggestions(query) :
                freeTime' = [source |-> "llm", availableSlots |-> suggested]
    /\ UNCHANGED <<query, agentVars, oauthVars, plannerVars, pipelineVars>>

NextCalendar == FindFreeTimeFromCalendar

\* --------------------------------------------------- CalendarOAuthManager
\* The manager's Map is read by key and by size only, so it is a function
\* from the connected identities to their records; connectedAt is left out.
\* this.expectedParticipants before the first wait; the landing page reads
\* it as [] (this.expectedParticipants || []).
Undefined == <<>>
NoCode == ""
NoState == ""
Codes == {"c1", "c2"}
\* Identities a browser may claim in the state parameter: with the shorter
\* roster the last one is an identity outside the roster.
Identities == Range(Prefix(MaxRoster))

\* minThreshold values; both are exact as IEEE doubles, and so are their
\* products with a roster length.
Thresholds == {[num |-> 1, den |-> 2], [num |-> 1, den |-> 1]}

\* The tokens getToken(code) yields are those issued for that code.
Connection(email, code) ==
    [email |-> email, accessToken |-> <<"access", code>>,
     refreshToken |-> <<"refresh", code>>]

NoConnections == [e \in {} |-> Connection(e, NoCode)]

OAuthState(srv, notify) ==
    /\ connections = NoConnections
    /\ expectedParticipants = Undefined
    /\ server = srv
    /\ notifyConfigured = notify
    /\ pending = {}
    /\ notifications = <<>>
    /\ wpc = "idle"
    /\ minThreshold = [num |-> 0, den |-> 1]
    /\ minRequired = 0
    /\ wTimeout = 0
    /\ wElapsed = 0
    /\ waitOutcome = "none"
    /\ waitResult = NoConnections
    /\ callbacks = 0
    /\ stored = FALSE

OAuthInit == OAuthState("none", FALSE)

\* Nothing threw.
NoFault == [cause |-> "none"]

\* No session of the planner runs.
PipelineIdle ==
    /\ step = 1
    /\ session = "idle"
    /\ waitpc = "none"
    /\ subscriptions = 0
    /\ clock = 0
    /\ collected = <<>>
    /\ results = <<>>
    /\ resolved = <<>>
    /\ channel = <<>>
    /\ fatal = NoFault

Init == AgentInit /\ OAuthInit /\ PlannerIdle /\ PipelineIdle /\ CalendarIdle

\* this.connections.set(email, {email, accessToken, refreshToken, connectedAt})
StoreConnectionReplacesAll(conns, email, code) ==
    [e \in {email} |-> Connection(email, code)]

StoreConnectionKeepsFirst(conns, email, code) ==
    IF email \in DOMAIN conns THEN conns
    ELSE [e \in DOMAIN conns \cup {email} |->
            IF e = email THEN Connection(email, code) ELSE conns[e]]

StoreConnection(conns, email, code) ==
    [e \in DOMAIN conns \cup {email} |->
        IF e = email THEN Connection(email, code) ELSE conns[e]]

\* Math.ceil(expectedEmails.length * minThreshold)
MinRequiredOf(n, frac) == (n * frac.num + frac.den - 1) \div frac.den

\* expectedEmails.filter(email => this.connections.has(email))
ConnectedCountsEveryone(expectedEmails, conns) ==
    SelectSeq(AllEmails, LAMBDA email : email \in DOMAIN conns)

Connected(expectedEmails, conns) ==
    SelectSeq(expectedEmails, LAMBDA email : email \in DOMAIN conns)

\* One pass of the while (true) loop of waitForConnections.
ConnectionsDecisionStrict(count, required, el, to) ==
    IF count > required THEN "quorum"
    ELSE IF el > to THEN "timeout"
    ELSE "sleep"

ConnectionsDecisionDeadlineFirst(count, required, el, to) ==
    IF el > to THEN "timeout"
    ELSE IF count >= required THEN "quorum"
    ELSE "sleep"

ConnectionsDecision(count, required, el, to) ==
    IF count >= required THEN "quorum"
    ELSE IF el > to THEN "timeout"
    ELSE "sleep"

\* return this.connections
ReturnedConnections(expectedEmails, conns) == conns

\* startServer(): this.server = this.app.listen(port, ...)
StartServer ==
    /\ server = "none"
    /\ server' = "listening"
    /\ UNCHANGED <<connections, expectedParticipants, notifyConfigured, pending,
                   notifications, wpc, minThreshold, minRequired, wTimeout,
                   wElapsed, waitOutcome, waitResult, callbacks, stored>>
    /\ UNCHANGED <<agentVars, plannerVars, pipelineVars, calendarVars>>

\* sendConnectionLinkToGroup: remembers the client and the chat, starts the
\* server and sends the link; a failing send is thrown to the caller and
\* leaves the manager as it is by then.
SendConnectionLinkToGroup ==
    /\ server = "none"
    /\ notifyConfigured' = TRUE
    /\ server' = "listening"
    /\ UNCHANGED <<connections, expectedParticipants, pending, notifications, wpc,
                   minThreshold, minRequired, wTimeout, wElapsed, waitOutcome,
                   waitResult, callbacks, stored>>
    /\ UNCHANGED <<agentVars, plannerVars, pipelineVars, calendarVars>>

\* stopServer(): if (this.server) this.server.close()
StopServer ==
    /\ server = "listening"
    /\ server' = "closed"
    /\ UNCHANGED <<connections, expectedParticipants, notifyConfigured, pending,
                   notifications, wpc, minThreshold, minRequired, wTimeout,
                   wElapsed, waitOutcome, waitResult, callbacks, stored>>
    /\ UNCHANGED <<agentVars, plannerVars, pipelineVars, calendarVars>>

\* GET /oauth/callback up to the await of getToken(code): a request without
\* a code or without a state is answered with the error page.
CallbackArrives ==
    /\ server = "listening"
    /\ callbacks < MaxCallbacks
    /\ callbacks' = callbacks + 1
    /\ \E code \in Codes \cup {NoCode}, selectedEmail \in Identities \cup {NoState} :
         IF code = NoCode THEN UNCHANGED pending
         ELSE IF selectedEmail = NoState THEN UNCHANGED pending
         ELSE pending' = pending \cup {[email |-> selectedEmail, code |-> code]}
    /\ UNCHANGED <<connections, expectedParticipants, server, notifyConfigured,
                   notifications, wpc, minThreshold, minRequired, wTimeout,
                   wElapsed, waitOutcome, waitResult, stored>>
    /\ UNCHANGED <<agentVars, plannerVars, pipelineVars, calendarVars>>

ExchangeResolvesFailureDrops ==
    /\ \E p \in pending, ok \in BOOLEAN, sendOk \in BOOLEAN :
         /\ pending' = pending \ {p}
         /\ stored' = ok
         /\ IF ok
            THEN /\ connections' = StoreConnection(connections, p.email, p.code)
                 /\ IF notifyConfigured /\ sendOk
                    THEN notifications' =
                           Append(notifications,
                                  [email |-> p.email,
                                   count |-> Cardinality(DOMAIN connections')])
                    ELSE UNCHANGED notifications
            ELSE /\ connections' = [e \in DOMAIN connections \ {p.email} |-> connections[e]]
                 /\ UNCHANGED notifications
    /\ UNCHANGED <<expectedParticipants, server, notifyConfigured, wpc,
                   minThreshold, minRequired, wTimeout, wElapsed, waitOutcome,
                   waitResult, callbacks>>
    /\ UNCHANGED <<agentVars, plannerVars, pipelineVars, calendarVars>>

ExchangeResolvesRollsBack ==
    /\ \E p \in pending, ok \in BOOLEAN, sendOk \in BOOLEAN :
         /\ pending' = pending \ {p}
         /\ stored' = ok
         /\ IF ok
            THEN IF notifyConfigured /\ ~sendOk
                 THEN UNCHANGED <<connections, notifications>>
                 ELSE /\ connections' = StoreConnection(connections, p.email, p.code)
                      /\ IF notifyConfigured
                         THEN notifications' =
                                Append(notifications,
                                       [email |-> p.email,
                                        count |-> Cardinality(DOMAIN connections')])
                         ELSE UNCHANGED notifications
            ELSE UNCHANGED <<connections, notifications>>
    /\ UNCHANGED <<expectedParticipants, server, notifyConfigured, wpc,
                   minThreshold, minRequired, wTimeout, wElapsed, waitOutcome,
                   waitResult, callbacks>>
    /\ UNCHANGED <<agentVars, plannerVars, pipelineVars, calendarVars>>

\* getToken(code) resolves or rejects; the rest of the callback follows: the
\* connection is stored and the group is told the running count.  A failing
\* notification is caught like a failing exchange (error page), after the
\* record has been stored.
ExchangeResolves ==
    /\ \E p \in pending, ok \in BOOLEAN, sendOk \in BOOLEAN :
         /\ pending' = pending \ {p}
         /\ stored' = ok
         /\ IF ok
            THEN /\ connections' = StoreConnection(connections, p.email, p.code)
                 /\ IF notifyConfigured /\ sendOk
                    THEN notifications' =
                           Append(notifications,
                                  [email |-> p.email,
                                   count |-> Cardinality(DOMAIN connections')])
                    ELSE UNCHANGED notifications
            ELSE UNCHANGED <<connections, notifications>>
    /\ UNCHANGED <<expectedParticipants, server, notifyConfigured, wpc,
                   minThreshold, minRequired, wTimeout, wElapsed, waitOutcome,
                   waitResult, callbacks>>
    /\ UNCHANGED <<agentVars, plannerVars, pipelineVars, calendarVars>>

\* GET /status: reads the map and answers; the manager is left as it is.
Status ==
    /\ server = "listening"
    /\ UNCHANGED <<oauthVars, plannerVars, pipelineVars, calendarVars>>
    /\ UNCHANGED <<agentVars, plannerVars, pipelineVars, calendarVars>>

\* waitForConnections up to the first pass of its loop.
WaitForConnections ==
    /\ wpc = "idle"
    /\ \E expectedEmails \in Rosters, t \in 0..MaxTimeout, frac \in Thresholds :
         /\ expectedParticipants' = expectedEmails
         /\ wTimeout' = t
         /\ minThreshold' = frac
         /\ minRequired' = MinRequiredOf(Len(expectedEmails), frac)
    /\ wElapsed' = 0
    /\ wpc' = "check"
    /\ UNCHANGED <<connections, server, notifyConfigured, pending, notifications,
                   waitOutcome, waitResult, callbacks, stored>>
    /\ UNCHANGED <<agentVars, plannerVars, pipelineVars, calendarVars>>

\* One pass of the loop; on a break, return this.connections.
PollConnections ==
    /\ wpc = "check"
    /\ LET connected == Connected(expectedParticipants, connections)
           decision == ConnectionsDecision(Len(connected), minRequired, wElapsed, wTimeout)
       IN IF decision = "sleep"
          THEN /\ wpc' = "sleep"
               /\ UNCHANGED <<waitOutcome, waitResult>>
          ELSE /\ wpc' = "done"
               /\ waitOutcome' = decision
               /\ waitResult' = ReturnedConnections(expectedParticipants, connections)
    /\ UNCHANGED <<connections, expectedParticipants, server, notifyConfigured,
                   pending, notifications, minThreshold, minRequired, wTimeout,
                   wElapsed, callbacks, stored>>
    /\ UNCHANGED <<agentVars, plannerVars, pipelineVars, calendarVars>>

\* await new Promise(resolve => setTimeout(resolve, 2000)) resolves.
WakeConnections ==
    /\ wpc = "sleep"
    /\ wpc' = "check"
    /\ UNCHANGED <<connections, expectedParticipants, server, notifyConfigured,
                   pending, notifications, minThreshold, minRequired, wTimeout,
                   wElapsed, waitOutcome, waitResult, callbacks, stored>>
    /\ UNCHANGED <<agentVars, plannerVars, pipelineVars, calendarVars>>

\* The clock advances while the wait reads it (see Tick).
TickConnections ==
    /\ wpc \in {"check", "sleep"}
    /\ wElapsed <= wTimeout
    /\ wElapsed' = wElapsed + 1
    /\ UNCHANGED <<connections, expectedParticipants, server, notifyConfigured,
                   pending, notifications, wpc, minThreshold, minRequired,
                   wTimeout, waitOutcome, waitResult, callbacks, stored>>
    /\ UNCHANGED <<agentVars, plannerVars, pipelineVars, calendarVars>>

\* if (connected): the value waitForConnections returned is a Map, and an
\* object is truthy whatever it holds.
Truthy(map) == TRUE

SUCCESSFUL == "Calendar integration successful"
NOT_ENOUGH == "Not enough calendar connections"
ALL_CONNECTED == "All calendars connected"

\* testCalendarOAuth after the wait returned: one of the two branches on
\* the returned value, then oauthManager.stopServer().
TestReports ==
    /\ wpc = "done"
    /\ wpc' = IF Truthy(waitResult) THEN SUCCESSFUL ELSE NOT_ENOUGH
    /\ server' = "closed"
    /\ UNCHANGED <<connections, expectedParticipants, notifyConfigured, pending,
                   notifications, minThreshold, minRequired, wTimeout, wElapsed,
                   waitOutcome, waitResult, callbacks, stored>>
    /\ UNCHANGED <<agentVars, plannerVars, pipelineVars, calendarVars>>

\* connectCalendars after the wait returned: the returned map is dropped,
\* "All calendars connected!" is logged and true is returned.
ConnectCalendarsReports ==
    /\ wpc = "done"
    /\ wpc' = ALL_CONNECTED
    /\ UNCHANGED <<connections, expectedParticipants, server, notifyConfigured,
                   pending, notifications, minThreshold, minRequired, wTimeout,
                   wElapsed, waitOutcome, waitResult, callbacks, stored>>
    /\ UNCHANGED <<agentVars, plannerVars, pipelineVars, calendarVars>>

NextOAuth ==
    \/ StartServer
    \/ SendConnectionLinkToGroup
    \/ StopServer
    \/ CallbackArrives
    \/ ExchangeResolves
    \/ Status
    \/ WaitForConnections
    \/ PollConnections
    \/ WakeConnections
    \/ TickConnections

\* ------------------------------------------------ cleanInteractivePlanner
\* The session of examples/clean-interactive-planner.ts from its welcome to
\* process.exit: the statements of the try block in their order.  A "send"
\* is client.send, an "ask" is interactive.askGroupQuestion (askConfirmation
\* for the last stage), a "call" awaits a collaborator, a "parse" is the
\* synchronous code that turns the replies of a stage into its value.
Pipeline ==
    << [op |-> "send",  tag |-> "welcome"],
       [op |-> "sleep", tag |-> "welcome"],
       [op |-> "send",  tag |-> "dateMessage"],
       [op |-> "ask",   tag |-> "date"],
       [op |-> "parse", tag |-> "date"],
       [op |-> "send",  tag |-> "selected"],
       [op |-> "call",  tag |-> "weather"],
       [op |-> "send",  tag |-> "weatherReport"],
       [op |-> "send",  tag |-> "activityQuestion"],
       [op |-> "ask",   tag |-> "activity"],
       [op |-> "parse", tag |-> "activity"],
       [op |-> "send",  tag |-> "finding locations"],
       [op |-> "call",  tag |-> "location"],
       [op |-> "send",  tag |-> "locationMessage"],
       [op |-> "ask",   tag |-> "location"],
       [op |-> "parse", tag |-> "location"],
       [op |-> "send",  tag |-> "chosenLocation"],
       [op |-> "call",  tag |-> "reddit"],
       [op |-> "send",  tag |-> "redditReport"],
       [op |-> "send",  tag |-> "cuisineQuestion"],
       [op |-> "ask",   tag |-> "cuisine"],
       [op |-> "send",  tag |-> "budgetQuestion"],
       [op |-> "ask",   tag |-> "budget"],
       [op |-> "parse", tag |-> "cuisine"],
       [op |-> "parse", tag |-> "budget"],
       [op |-> "send",  tag |-> "finding restaurants"],
       [op |-> "call",  tag |-> "restaurant"],
       [op |-> "send",  tag |-> "restaurantMessage"],
       [op |-> "ask",   tag |-> "restaurant"],
       [op |-> "parse", tag |-> "restaurant"],
       [op |-> "send",  tag |-> "chosenRestaurant"],
       [op |-> "call",  tag |-> "transportTo"],
       [op |-> "call",  tag |-> "transportFrom"],
       [op |-> "send",  tag |-> "finalTimeline"],
       [op |-> "ask",   tag |-> "confirmation"],
       [op |-> "parse", tag |-> "confirmation"],
       [op |-> "final", tag |-> "confirmation"],
       [op |-> "exit",  tag |-> "exit" ] >>

Stages ==
    <<"date", "activity", "location", "cuisine", "budget", "restaurant",
      "confirmation">>

StageSet == Range(Stages)

\* The place of a stage in the order of the pipeline.
StageIndex(s) == CHOOSE i \in 1..Len(Stages) : Stages[i] = s

\* The statement that runs next, "exit" past the last one.
Current == IF step <= Len(Pipeline) THEN Pipeline[step] ELSE [op |-> "none", tag |-> "none"]

\* askGroupQuestion(.., 180000) of every stage and askConfirmation's 180000.
StageTimeout == ConfirmTimeout

\* What a participant may answer to the question of a stage.
StageTexts(s) ==
    CASE s \in {"date", "location", "restaurant"} -> {<<"2">>}
      [] s \in {"activity", "cuisine"} -> {<<"H", "i">>}
      [] s = "budget" -> {<<"H", "i", "g", "h">>}
      [] s = "confirmation" -> {TextYes, TextNo}

Outdoor == <<"outdoor">>
Indoor == <<"indoor">>
American == <<"American">>
APOLOGY == "Sorry, something went wrong. Please try again."

\* A partial function by its graph: the keys given so far.
Put(f, k, v) == [x \in DOMAIN f \cup {k} |-> IF x = k THEN v ELSE f[x]]
Drop(f, k) == [x \in DOMAIN f \ {k} |-> f[x]]

\* ---- the responses of the planning collaborators.  A content is a text
\* over "{" (the document opens), "}" (the document closes) and "x" (any
\* other character); the markdown fences are stripped before the parse.
WholeDocument == <<"{", "}">>
TrailingText == <<"{", "}", "x">>
CutShort == <<"{", "x">>
Contents == {WholeDocument, TrailingText, CutShort}

\* parser.parse(content) / JSON.parse(content) succeed
WellFormed(content) == content = WholeDocument

\* content.lastIndexOf('}'), counted from 0, -1 when there is none
LastIndexOf(content, ch) ==
    LET hits == {i \in 1..Len(content) : content[i] = ch} IN
        IF hits = {} THEN -1
        ELSE (CHOOSE i \in hits : \A j \in hits : j <= i) - 1

\* if (lastBrace > 0) content = content.substring(0, lastBrace + 1)
Truncate(content) ==
    LET lastBrace == LastIndexOf(content, "}") IN
        IF lastBrace > 0 THEN SubSeq(content, 1, lastBrace + 1) ELSE content

\* LocationAgent.findLocations and RestaurantAgent.findRestaurants: the
\* parse, and in its catch the truncation and one more parse.
ParseWithRepair(content) ==
    IF WellFormed(content)
    THEN [ok |-> TRUE, repairs |-> 0]
    ELSE [ok |-> WellFormed(Truncate(content)), repairs |-> 1]

\* TransportationAgent.findTransportation: const parsed = await parser.parse(..)
ParseOnce(content) == [ok |-> WellFormed(content), repairs |-> 0]

ParseResponse(agent, content) ==
    IF agent \in {"location", "restaurant"}
    THEN ParseWithRepair(content)
    ELSE ParseOnce(content)

\* ---- the value of a stage from the texts of its replies
\* (clean-interactive-planner.ts 110-116, 170-172, 221-227, 295-300,
\* 349-355; interactive-agent.ts 171-187 for the confirmation)
ResolveStageNoDefault(s, values, res, roster) ==
    CASE s = "date" -> MeanChoice(values, DateOptions)
      [] s = "activity" -> values
      [] s = "location" -> FirstChoice(values, res["location"])
      [] s = "cuisine" -> values
      [] s = "budget" -> Budget(values)
      [] s = "restaurant" -> FirstChoice(values, res["restaurant"])
      [] s = "confirmation" ->
           [confirmed |-> Confirmed(YesCount(MapOf(values)), MapOf(values), roster),
            responses |-> Confirmations(MapOf(values))]

ResolveStage(s, values, res, roster) ==
    CASE s = "date" -> MeanChoice(values, DateOptions)
      [] s = "activity" -> IF Len(values) > 0 THEN values ELSE <<res["weather"]>>
      [] s = "location" -> FirstChoice(values, res["location"])
      [] s = "cuisine" -> IF Len(values) > 0 THEN values ELSE <<American>>
      [] s = "budget" -> Budget(values)
      [] s = "restaurant" -> FirstChoice(values, res["restaurant"])
      [] s = "confirmation" ->
           [confirmed |-> Confirmed(YesCount(MapOf(values)), MapOf(values), roster),
            responses |-> Confirmations(MapOf(values))]

\* The collaborator results a parse reads for the last time.
LastUse(s) ==
    CASE s = "activity" -> {"weather"}
      [] s = "location" -> {"location"}
      [] s = "restaurant" -> {"restaurant"}
      [] OTHER -> {}

PipelineStart ==
    /\ step = 1
    /\ session = "running"
    /\ waitpc = "none"
    /\ subscriptions = 0
    /\ clock = 0
    /\ collected = <<>>
    /\ results = <<>>
    /\ resolved = <<>>
    /\ channel = <<>>
    /\ fatal = NoFault

\* Control leaves the try block: the statement threw, and the constants of
\* the block are out of scope in the catch.
Throw(cause) ==
    /\ session' = "catch"
    /\ fatal' = cause
    /\ collected' = <<>>
    /\ results' = <<>>
    /\ resolved' = <<>>

Advance == step' = step + 1

\* await client.send(groupChatId, ...) of the pipeline.
SendMessage ==
    /\ session = "running"
    /\ Current.op = "send"
    /\ \E sendOk \in BOOLEAN :
         IF sendOk
         THEN /\ channel' = Append(channel, [kind |-> "message", tag |-> Current.tag])
              /\ Advance
              /\ UNCHANGED <<session, fatal, collected, results, resolved>>
         ELSE /\ Throw([cause |-> "send"])
              /\ UNCHANGED <<step, channel>>
    /\ UNCHANGED <<waitpc, subscriptions, clock>>
    /\ UNCHANGED <<agentVars, oauthVars, plannerVars, calendarVars>>

\* await new Promise(resolve => setTimeout(resolve, 30000))
Sleep ==
    /\ session = "running"
    /\ Current.op = "sleep"
    /\ Advance
    /\ UNCHANGED <<session, waitpc, subscriptions, clock, collected, results,
                   resolved, channel, fatal>>
    /\ UNCHANGED <<agentVars, oauthVars, plannerVars, calendarVars>>

AskStageSwallowsFailure ==
    /\ session = "running"
    /\ Current.op = "ask"
    /\ waitpc = "none"
    /\ \E sendOk \in BOOLEAN :
         /\ channel' = IF sendOk
                       THEN Append(channel, [kind |-> "prompt", tag |-> Current.tag])
                       ELSE channel
         /\ collected' = Put(collected, Current.tag, <<>>)
         /\ subscriptions' = subscriptions + 1
         /\ clock' = 0
         /\ waitpc' = "check"
         /\ UNCHANGED <<session, fatal, results, resolved>>
    /\ UNCHANGED step
    /\ UNCHANGED <<agentVars, oauthVars, plannerVars, calendarVars>>

\* askGroupQuestion / askConfirmation up to the loop of waitForResponses:
\* the prompt is sent, then the maps are made and the watcher is started.
\* A send that throws leaves the call before any of that.
AskStage ==
    /\ session = "running"
    /\ Current.op = "ask"
    /\ waitpc = "none"
    /\ \E sendOk \in BOOLEAN :
         IF sendOk
         THEN /\ channel' = Append(channel, [kind |-> "prompt", tag |-> Current.tag])
              /\ collected' = Put(collected, Current.tag, <<>>)
              /\ subscriptions' = subscriptions + 1
              /\ clock' = 0
              /\ waitpc' = "check"
              /\ UNCHANGED <<session, fatal, results, resolved>>
         ELSE /\ Throw([cause |-> "prompt"])
              /\ UNCHANGED <<channel, subscriptions, clock, waitpc>>
    /\ UNCHANGED <<step>>
    /\ UNCHANGED <<agentVars, oauthVars, plannerVars, calendarVars>>

\* onNewMessage records the first text of one more participant of the group
\* (the k-th to answer is AllEmails[k]).
Reply ==
    /\ subscriptions > 0
    /\ Len(collected[Current.tag]) < MaxRepliers
    /\ \E text \in StageTexts(Current.tag) :
         collected' = Put(collected, Current.tag, Append(collected[Current.tag], text))
    /\ UNCHANGED <<step, session, waitpc, subscriptions, clock, results, resolved,
                   channel, fatal>>
    /\ UNCHANGED <<agentVars, oauthVars, plannerVars, calendarVars>>

\* The clock a running wait reads; it stops one quantum past the deadline.
StageTick ==
    /\ waitpc \in {"check", "sleep"}
    /\ clock <= StageTimeout
    /\ clock' = clock + 1
    /\ UNCHANGED <<step, session, waitpc, subscriptions, collected, results,
                   resolved, channel, fatal>>
    /\ UNCHANGED <<agentVars, oauthVars, plannerVars, calendarVars>>

StagePollKeepsWatching ==
    /\ waitpc = "check"
    /\ LET decision == WaitDecision(Len(collected[Current.tag]), clock, StageTimeout) IN
         IF decision = "sleep"
         THEN /\ waitpc' = "sleep"
              /\ UNCHANGED <<step, subscriptions, clock>>
         ELSE /\ waitpc' = "none"
              /\ UNCHANGED subscriptions
              /\ clock' = 0
              /\ Advance
    /\ UNCHANGED <<session, collected, results, resolved, channel, fatal>>
    /\ UNCHANGED <<agentVars, oauthVars, plannerVars, calendarVars>>

\* One evaluation of the loop of waitForResponses; when the loop ends,
\* stopWatching, and the call returns the map to the pipeline (startTime
\* ends with the call).
StagePoll ==
    /\ waitpc = "check"
    /\ LET decision == WaitDecision(Len(collected[Current.tag]), clock, StageTimeout) IN
         IF decision = "sleep"
         THEN /\ waitpc' = "sleep"
              /\ UNCHANGED <<step, subscriptions, clock>>
         ELSE /\ waitpc' = "none"
              /\ subscriptions' = 0
              /\ clock' = 0
              /\ Advance
    /\ UNCHANGED <<session, collected, results, resolved, channel, fatal>>
    /\ UNCHANGED <<agentVars, oauthVars, plannerVars, calendarVars>>

\* await new Promise(resolve => setTimeout(resolve, 1000)) resolves.
StageWake ==
    /\ waitpc = "sleep"
    /\ waitpc' = "check"
    /\ UNCHANGED <<step, session, subscriptions, clock, collected, results,
                   resolved, channel, fatal>>
    /\ UNCHANGED <<agentVars, oauthVars, plannerVars, calendarVars>>

\* The value of a stage is computed from the replies in hand.
ParseStage ==
    /\ session = "running"
    /\ Current.op = "parse"
    /\ resolved' = Put(resolved, Current.tag,
                       ResolveStage(Current.tag, collected[Current.tag], results,
                                    participants))
    /\ collected' = Drop(collected, Current.tag)
    /\ results' = [k \in DOMAIN results \ LastUse(Current.tag) |-> results[k]]
    /\ Advance
    /\ UNCHANGED <<session, waitpc, subscriptions, clock, channel, fatal>>
    /\ UNCHANGED <<agentVars, oauthVars, plannerVars, calendarVars>>

\* weatherAgent.getWeatherForecast: its own catch returns the default
\* weather, so the call always returns; weather.temperature.avg > 15 or not.
CallWeather ==
    /\ session = "running"
    /\ Current = [op |-> "call", tag |-> "weather"]
    /\ \E warm \in BOOLEAN :
         results' = Put(results, "weather", IF warm THEN Outdoor ELSE Indoor)
    /\ Advance
    /\ UNCHANGED <<session, waitpc, subscriptions, clock, collected, resolved,
                   channel, fatal>>
    /\ UNCHANGED <<agentVars, oauthVars, plannerVars, calendarVars>>

\* redditAgent.searchLocation returns insights or, when its fallback fails
\* too, throws.
CallReddit ==
    /\ session = "running"
    /\ Current = [op |-> "call", tag |-> "reddit"]
    /\ \E ok \in BOOLEAN :
         IF ok
         THEN Advance /\ UNCHANGED <<session, fatal, collected, results, resolved>>
         ELSE Throw([cause |-> "collaborator", agent |-> "reddit"]) /\ UNCHANGED step
    /\ UNCHANGED <<waitpc, subscriptions, clock, channel>>
    /\ UNCHANGED <<agentVars, oauthVars, plannerVars, calendarVars>>

\* locationAgent.findLocations / restaurantAgent.findRestaurants: the
\* model's response is parsed (with the repair); the planner keeps the
\* first three of the options, of which there is at least one.
CallFinder ==
    /\ session = "running"
    /\ Current.op = "call"
    /\ Current.tag \in {"location", "restaurant"}
    /\ \E content \in Contents, count \in 1..MaxOptions :
         LET parsed == ParseResponse(Current.tag, content) IN
           IF parsed.ok
           THEN /\ results' = Put(results, Current.tag, count)
                /\ Advance
                /\ UNCHANGED <<session, fatal, collected, resolved>>
           ELSE /\ Throw([cause |-> "collaborator", agent |-> Current.tag,
                          content |-> content, repairs |-> parsed.repairs])
                /\ UNCHANGED step
    /\ UNCHANGED <<waitpc, subscriptions, clock, channel>>
    /\ UNCHANGED <<agentVars, oauthVars, plannerVars, calendarVars>>

\* transportAgent.findTransportation, to the location and from the
\* restaurant: the model's response is parsed once.
CallTransport ==
    /\ session = "running"
    /\ Current.op = "call"
    /\ Current.tag \in {"transportTo", "transportFrom"}
    /\ \E content \in Contents :
         LET parsed == ParseResponse("transportation", content) IN
           IF parsed.ok
           THEN Advance /\ UNCHANGED <<session, fatal, collected, results, resolved>>
           ELSE /\ Throw([cause |-> "collaborator", agent |-> "transportation",
                          content |-> content, repairs |-> parsed.repairs])
                /\ UNCHANGED step
    /\ UNCHANGED <<waitpc, subscriptions, clock, channel>>
    /\ UNCHANGED <<agentVars, oauthVars, plannerVars, calendarVars>>

\* if (confirmation.confirmed) send "PLAN CONFIRMED! ..." else send the
\* request for changes.
SendFinal ==
    /\ session = "running"
    /\ Current.op = "final"
    /\ \E sendOk \in BOOLEAN :
         IF sendOk
         THEN /\ channel' = Append(channel,
                    [kind |-> "final",
                     tag |-> IF resolved["confirmation"].confirmed
                             THEN PLAN_CONFIRMED ELSE NEEDS_CHANGES])
              /\ Advance
              /\ UNCHANGED <<session, fatal, collected, results, resolved>>
         ELSE /\ Throw([cause |-> "send"])
              /\ UNCHANGED <<step, channel>>
    /\ UNCHANGED <<waitpc, subscriptions, clock>>
    /\ UNCHANGED <<agentVars, oauthVars, plannerVars, calendarVars>>

\* process.exit(0)
Exit ==
    /\ session = "running"
    /\ Current.op = "exit"
    /\ session' = "exit0"
    /\ UNCHANGED <<step, waitpc, subscriptions, clock, collected, results, resolved,
                   channel, fatal>>
    /\ UNCHANGED <<agentVars, oauthVars, plannerVars, calendarVars>>

\* catch (error): the apology is sent and the process exits with 1; when
\* that send throws too, the promise of the planner rejects and
\* .catch(console.error) logs it.
Apologize ==
    /\ session = "catch"
    /\ \E sendOk \in BOOLEAN :
         IF sendOk
         THEN /\ channel' = Append(channel, [kind |-> "apology", tag |-> APOLOGY])
              /\ session' = "exit1"
         ELSE /\ session' = "rejected"
              /\ UNCHANGED channel
    /\ UNCHANGED <<step, waitpc, subscriptions, clock, collected, results, resolved,
                   fatal>>
    /\ UNCHANGED <<agentVars, oauthVars, plannerVars, calendarVars>>

\* The steps of the planner's own async function: what runs when the
\* promise it awaits settles.
Planner ==
    \/ SendMessage
    \/ Sleep
    \/ AskStage
    \/ StagePoll
    \/ StageWake
    \/ ParseStage
    \/ CallWeather
    \/ CallReddit
    \/ CallFinder
    \/ CallTransport
    \/ SendFinal
    \/ Exit
    \/ Apologize

NextPipeline ==
    \/ Planner
    \/ Reply
    \/ StageTick

\* STEP 10 of the planner: the confirmation question and what follows it.
NextFinal ==
    \/ AskConfirmation
    \/ Deliver
    \/ Tick
    \/ Poll
    \/ Wake
    \/ SendFinalConfirmation

Next == NextAgent \/ NextOAuth \/ NextPlanner \/ SendFinalConfirmation

Spec == Init /\ [][Next]_vars

SpecAgent == Init /\ [][NextAgent]_vars

SpecFinal == Init /\ [][NextFinal]_vars

OAuthOnlyInit == Init /\ participants = Prefix(MaxRoster)

SpecOAuth == OAuthOnlyInit /\ [][NextOAuth]_vars

\* The OAuth test run: startServer, the link sent by the caller's own
\* client (no notifications configured), then waitForConnections while the
\* participants authorize.  The timers of the event loop fire and the clock
\* advances.
ConnectInit ==
    /\ AgentInit
    /\ participants = Prefix(MaxRoster)
    /\ OAuthState("listening", FALSE)
    /\ PlannerIdle
    /\ PipelineIdle
    /\ CalendarIdle

NextConnect ==
    \/ CallbackArrives
    \/ ExchangeResolves
    \/ WaitForConnections
    \/ PollConnections
    \/ WakeConnections
    \/ TickConnections
    \/ TestReports
    \/ ConnectCalendarsReports

FairSpecConnect ==
    /\ ConnectInit
    /\ [][NextConnect]_vars
    /\ WF_vars(PollConnections)
    /\ WF_vars(WakeConnections)
    /\ WF_vars(TickConnections)

\* One stage of the planner with the replies of its collection in hand.
PlannerInit ==
    /\ AgentInit
    /\ participants = Prefix(MaxRoster)
    /\ OAuthInit
    /\ stageReplies \in ReplyMaps
    /\ outcome = NoOutcome
    /\ PipelineIdle
    /\ CalendarIdle

SpecPlanner == PlannerInit /\ [][NextPlanner]_vars

\* The date and budget steps of the holiday planner and of the trial, and
\* the budget step of the clean planner, with the replies in hand.
HolidayInit ==
    /\ AgentInit
    /\ participants = Prefix(MaxRoster)
    /\ OAuthInit
    /\ stageReplies \in HolidayReplyMaps
    /\ outcome = NoOutcome
    /\ PipelineIdle
    /\ CalendarIdle

SpecHoliday == HolidayInit /\ [][NextHoliday]_vars

\* One call of findFreeTime: the calendars of the free/busy answer and the
\* duration asked for.
CalendarInit ==
    /\ AgentInit
    /\ participants = Prefix(MaxRoster)
    /\ OAuthInit
    /\ PlannerIdle
    /\ PipelineIdle
    /\ \E calendars \in CalendarSets, duration \in 1..MaxDuration :
         query = [calendars |-> calendars, startDate |-> 0, endDate |-> Horizon,
                  duration |-> duration]
    /\ freeTime = NoFreeTime

SpecCalendar == CalendarInit /\ [][NextCalendar]_vars

\* One session of the planner: the roster of the group and an idle manager.
PipelineInit ==
    /\ AgentInit
    /\ participants = Prefix(MaxRoster)
    /\ OAuthInit
    /\ PlannerIdle
    /\ PipelineStart
    /\ CalendarIdle

SpecPipeline == PipelineInit /\ [][NextPipeline]_vars

\* The awaited sends, collaborator calls and timers of the session settle,
\* and the clock advances while a wait reads it.
FairSpecPipeline ==
    /\ PipelineInit
    /\ [][NextPipeline]_vars
    /\ WF_vars(Planner)
    /\ WF_vars(StageTick)

\* ----------------------------------------------------------------- claims
\* What the group wrote during the running collection: the delivered
\* messages of the group chat that are not the bot's own.
Wrote == {SenderOf(log[j]) : j \in {k \in 1..Len(log) : Accepted(log[k])}}

FirstFrom(s) ==
    log[CHOOSE j \in 1..Len(log) :
          /\ Accepted(log[j]) /\ SenderOf(log[j]) = s
          /\ \A k \in 1..(j - 1) : ~(Accepted(log[k]) /\ SenderOf(log[k]) = s)]

C2_ReturnsOnQuorumOrTimeout ==
    [][(pc = "check" /\ pc' # "check") =>
          (pc' = "returned" <=>
             (Cardinality(respondedParticipants) >= MinResponses \/ elapsed > timeout))]_vars

\* The collection returned on a response, before the timeout had elapsed.
C2_Witness ==
    /\ pc = "returned"
    /\ Len(result) >= MinResponses
    /\ elapsed <= timeout
    /\ timeout > 0

\* C3: when the timeout elapses with fewer than MinResponses responses the
\* collection returns normally, with what was collected; it does not throw.
C3_TimeoutReturnsNormally ==
    [][(/\ pc = "check"
        /\ pc' # "check"
        /\ Cardinality(respondedParticipants) < MinResponses
        /\ elapsed > timeout) =>
          (pc' = "returned" /\ result' = responses /\ ~watching')]_vars

\* A collection timed out with nothing collected although messages came in.
C3_Witness ==
    /\ pc = "returned"
    /\ exitReason = "timeout"
    /\ result = <<>>
    /\ log # <<>>

\* C4: every response a collection returns was delivered during that same
\* collection; nothing recorded by the previous one is in it.  The watcher
\* is stopped whenever no collection runs, and a collection that has been
\* delivered nothing holds nothing.
C4_NoLeakAcrossStages ==
    /\ pc = "returned" =>
         \A i \in 1..Len(result) : \E j \in 1..Len(log) :
            /\ Accepted(log[j])
            /\ SenderOf(log[j]) = result[i].key
            /\ log[j].text = result[i].value
    /\ pc \in {"idle", "returned", "threw"} => ~watching
    /\ (watching /\ log = <<>>) => responses = <<>>

\* The same sender answered two consecutive collections differently.
C4_Witness ==
    /\ pc = "returned"
    /\ stage = 2
    /\ \E i \in 1..Len(result), j \in 1..Len(prevResult) :
         /\ result[i].key = prevResult[j].key
         /\ result[i].value # prevResult[j].value

\* C5: askConfirmation confirms exactly when the affirmative replies are at
\* least half of the full roster, rounded up (2 * yes >= roster size).  With
\* a roster of 4, {yes, no} is not confirmed and {yes, yes} is.
YesReplies == {i \in 1..Len(result) : result[i].value = TextYes}

RepliesAre(texts) ==
    /\ Len(result) = Len(texts)
    /\ \E f \in [1..Len(texts) -> 1..Len(texts)] :
         /\ \A a, b \in 1..Len(texts) : a # b => f[a] # f[b]
         /\ \A a \in 1..Len(texts) : result[a].value = texts[f[a]]

C5_MajorityOfRoster ==
    (pc = "returned" /\ kind = "confirmation") =>
        /\ confirmation.confirmed <=> (2 * Cardinality(YesReplies) >= Len(participants))
        /\ (Len(participants) = 4 /\ RepliesAre(<<TextYes, TextNo>>))
              => ~confirmation.confirmed
        /\ (Len(participants) = 4 /\ RepliesAre(<<TextYes, TextYes>>))
              => confirmation.confirmed

\* Roster of 4, one yes and one no: half of the respondents, not of the roster.
C5_Witness ==
    /\ pc = "returned"
    /\ kind = "confirmation"
    /\ Len(participants) = 4
    /\ RepliesAre(<<TextYes, TextNo>>)
    /\ ~confirmation.confirmed

\* Roster members with a connection record.
RosterConnected == Range(expectedParticipants) \cap DOMAIN connections

\* C6: minRequired is the roster length times minThreshold, rounded up, and
\* the wait ends with "threshold reached" only when at least minRequired
\* members of the roster have a connection; connections under identities
\* outside the roster do not count.
C6_QuorumCountsRosterOnly ==
    wpc # "idle" =>
        /\ minRequired * minThreshold.den >= Len(expectedParticipants) * minThreshold.num
        /\ (minRequired - 1) * minThreshold.den < Len(expectedParticipants) * minThreshold.num
        /\ waitOutcome = "quorum" => Cardinality(RosterConnected) >= minRequired

\* The wait timed out although the map held as many records as the quorum
\* asks for: one of them is an outsider's.
C6_Witness ==
    /\ wpc = "done"
    /\ waitOutcome = "timeout"
    /\ minRequired >= 2
    /\ Cardinality(DOMAIN waitResult) >= minRequired

Half == [num |-> 1, den |-> 2]

\* C7: with roster [a, b, c, d] and minThreshold 0.5, a pass of the loop
\* that finds any 2 roster members connected ends the wait with "threshold
\* reached", and every such wait ends (the timeout ends it when nobody
\* connects).
C7_TwoOfFourOrTimeout ==
    /\ [][(/\ wpc = "check"
           /\ wpc' # "check"
           /\ expectedParticipants = Prefix(4)
           /\ minThreshold = Half
           /\ Cardinality(RosterConnected) >= 2) =>
             (wpc' = "done" /\ waitOutcome' = "quorum")]_vars
    /\ (wpc = "check" /\ expectedParticipants = Prefix(4) /\ minThreshold = Half)
          ~> (wpc = "done")

\* The wait of [a, b, c, d] ended on the connections of b and d.
C7_Witness ==
    /\ wpc = "done"
    /\ expectedParticipants = Prefix(4)
    /\ minThreshold = Half
    /\ waitOutcome = "quorum"
    /\ DOMAIN waitResult = {"b", "d"}

\* C8: in both outcomes the value waitForConnections returns holds a record
\* for exactly the roster members connected when the wait ended, and none
\* for an identity outside the roster.
C8_ReturnsConnectedRosterSubset ==
    [][(wpc = "check" /\ wpc' = "done") =>
          DOMAIN waitResult' = Range(expectedParticipants) \cap DOMAIN connections]_vars

\* C9: a participant that has a connection record keeps one: no callback,
\* wait, status request or server stop removes a record.
C9_ConnectionsNeverShrink ==
    [][DOMAIN connections \subseteq DOMAIN connections']_vars

\* Two participants are still connected after the wait ended and the server
\* was stopped.
C9_Witness ==
    /\ server = "closed"
    /\ wpc = "done"
    /\ Cardinality(DOMAIN connections) = 2
    /\ pending = {}

\* C10: a successful callback for a participant that is already connected
\* leaves the set of connected participants as it is, replaces that
\* participant's record by the credentials of this callback, leaves the
\* other records alone, and the count it announces is the count before it.
C10_IdempotentUpsert ==
    [][\A p \in pending :
         (/\ pending' = pending \ {p}
          /\ stored'
          /\ p.email \in DOMAIN connections) =>
            /\ DOMAIN connections' = DOMAIN connections
            /\ connections'[p.email] = Connection(p.email, p.code)
            /\ \A e \in DOMAIN connections \ {p.email} : connections'[e] = connections[e]
            /\ Len(notifications') > Len(notifications) =>
                 notifications'[Len(notifications')].count = Cardinality(DOMAIN connections)]_vars

\* The same participant authorized twice; both announcements say 1 connected.
C10_Witness ==
    /\ Len(notifications) = 2
    /\ notifications[1].email = notifications[2].email
    /\ notifications[1].count = 1
    /\ notifications[2].count = 1
    /\ stored
    /\ Cardinality(DOMAIN connections) = 1

\* C11: a connection record is created only for an identity of the roster
\* registered by waitForConnections; a callback that arrives before a roster
\* has been registered, or that names another identity, creates none.
C11_OnlyRosterAuthorizes ==
    [][\A e \in DOMAIN connections' \ DOMAIN connections :
          /\ expectedParticipants # Undefined
          /\ e \in Range(expectedParticipants)]_vars

\* C12: a delivered message of another chat, or one flagged as the bot's
\* own, changes neither the response map nor the set of respondents, and a
\* collection that ended on a response was delivered a message of its own
\* group chat that the bot did not write.
C12_OwnAndForeignIgnored ==
    /\ [][(/\ Len(log') = Len(log) + 1
           /\ \/ log'[Len(log')].isFromMe
              \/ log'[Len(log')].chatId # groupChatId) =>
             UNCHANGED <<responses, respondedParticipants>>]_vars
    /\ [](exitReason = "enough" => Wrote # {})

\* The bot's own message and a message of another chat were delivered; the
\* collection ran into its timeout with nothing recorded.
C12_Witness ==
    /\ pc = "returned"
    /\ exitReason = "timeout"
    /\ result = <<>>
    /\ \E j, k \in 1..Len(log) :
         /\ log[j].isFromMe /\ log[j].chatId = groupChatId
         /\ ~log[k].isFromMe /\ log[k].chatId = otherChatId

\* Prompts of call s among the messages the agent sent to the group chat.
PromptsOf(s) ==
    {i \in 1..Len(sent) : sent[i].stage = s /\ sent[i].kind \in {"question", "confirmation"}}

\* C13: every askGroupQuestion / askConfirmation call whose send succeeded
\* has put exactly one prompt on the channel (a call whose send failed has
\* put none and has thrown); the prompt goes out while the call has recorded
\* no response and before its watcher runs, and the call sends nothing else
\* while it waits and when it returns.
C13_PromptSentOnce ==
    /\ [](\A s \in 1..stage :
            Cardinality(PromptsOf(s)) = (IF s = stage /\ pc = "threw" THEN 0 ELSE 1))
    /\ [][(stage' = stage + 1 /\ pc' # "threw") =>
             /\ Len(sent') = Len(sent) + 1
             /\ sent'[Len(sent')].kind = kind'
             /\ ~watching
             /\ responses' = <<>> /\ respondedParticipants' = {}]_vars
    /\ [][(pc \in {"check", "sleep"}) => (sent' = sent)]_vars

\* A question and then a confirmation were each answered; the channel holds
\* the two prompts.
C13_Witness ==
    /\ pc = "returned"
    /\ stage = 2
    /\ Len(sent) = 2
    /\ sent[1].kind = "question"
    /\ sent[2].kind = "confirmation"
    /\ prevResult # <<>>
    /\ result # <<>>

\* C14: askGroupQuestion returns before its timeout has elapsed only when
\* every participant of the roster has responded.
C14_QuestionWaitsForEveryone ==
    (pc = "returned" /\ kind = "question") =>
        \/ exitReason = "timeout"
        \/ Len(result) >= Len(participants)

\* Affirmative entries of the map askConfirmation returned.
Approvals ==
    {j \in 1..Len(confirmation.responses) : confirmation.responses[j].value}

\* C15: the "PLAN CONFIRMED / Everyone has approved" message is on the
\* channel only when as many participants replied affirmatively to the
\* confirmation question as the roster has members.
C15_ConfirmedOnlyWhenAllApproved ==
    \A i \in 1..Len(sent) :
        sent[i].kind = PLAN_CONFIRMED => Cardinality(Approvals) >= Len(participants)

\* The text holds the word, in whatever case each of its letters is written.
ContainsWord(t, lower, upper) ==
    \E off \in 0..(Len(t) - Len(lower)) :
        \A j \in 1..Len(lower) : t[off + j] \in {lower[j], upper[j]}

\* The text is the single letter y, in either case, between blanks.
IsTokenY(t) ==
    \E i \in 1..Len(t) :
        /\ t[i] \in {"y", "Y"}
        /\ \A j \in (1..Len(t)) \ {i} : t[j] = " "

Affirmative(t) ==
    \/ ContainsWord(t, <<"y", "e", "s">>, <<"Y", "E", "S">>)
    \/ THUMBSUP \in Range(t)
    \/ IsTokenY(t)

\* C16: askConfirmation maps every collected reply to TRUE when the reply
\* holds "yes" in any case, is the token "y", or holds the thumbs-up sign,
\* and to FALSE otherwise; the returned map has one entry per respondent,
\* under the respondent's key.
C16_ReplyToBoolean ==
    outcome.stage = "confirmation" =>
        /\ Len(outcome.responses) = Len(stageReplies)
        /\ \A i \in 1..Len(stageReplies) :
              /\ outcome.responses[i].key = stageReplies[i].key
              /\ outcome.responses[i].value = Affirmative(stageReplies[i].value)

\* " Y ", "yo", "nYES" and "ok" with a thumbs-up were tallied.
C16_Witness ==
    /\ outcome.stage = "confirmation"
    /\ MapValues(stageReplies) =
          <<<<" ", "Y", " ">>, <<"y", "o">>, <<"n", "Y", "E", "S">>, <<"o", "k", THUMBSUP>>>>
    /\ [i \in 1..4 |-> outcome.responses[i].value] = <<TRUE, FALSE, TRUE, TRUE>>

\* The reply, blanks at its ends aside, starts with the numeral of menu
\* entry k (1..9) and goes on with something that is not a digit.
Denotes(t, k) ==
    LET s == Trim(t) IN
        /\ s # <<>>
        /\ s[1] = Digits[k + 1]
        /\ Len(s) = 1 \/ ~IsDigit(s[2])

\* Replies of the stage in hand that denote entry k.
RepliesFor(k) == {i \in 1..Len(stageReplies) : Denotes(stageReplies[i].value, k)}

\* Replies of the stage in hand that denote an entry of a menu of count.
ValidReplies(count) == UNION {RepliesFor(k) : k \in 1..count}

\* C17: the date stage resolves to round(mean of the replies that are an
\* integer of 1..3) - 1, halves rounded up, and to index 0 when no reply is
\* one; replies "1", "2", "5", "abc" resolve to index 1.
C17_DateIsRoundedMean ==
    outcome.stage = "date" =>
        LET n == Cardinality(RepliesFor(1)) + Cardinality(RepliesFor(2))
                   + Cardinality(RepliesFor(3))
            total == Cardinality(RepliesFor(1)) + 2 * Cardinality(RepliesFor(2))
                       + 3 * Cardinality(RepliesFor(3))
            r == outcome.value + 1
        IN /\ n = 0 => outcome.value = 0
           /\ n > 0 => (2 * n * r - n <= 2 * total /\ 2 * total < 2 * n * r + n)
           /\ MapValues(stageReplies) = <<<<"1">>, <<"2">>, <<"5">>, <<"a", "b", "c">>>>
                 => outcome.value = 1

\* The date stage resolved the replies "1", "2", "5", "abc".
C17_Witness ==
    /\ outcome.stage = "date"
    /\ MapValues(stageReplies) = <<<<"1">>, <<"2">>, <<"5">>, <<"a", "b", "c">>>>
    /\ outcome.value = 1

\* C18: the location and restaurant stages resolve to the choice of the
\* first reply, in arrival order, that is an integer of 1..count, minus 1,
\* and to index 0 when no reply is one.
C18_FirstValidChoice ==
    outcome.stage \in {"location", "restaurant"} =>
        LET valid == ValidReplies(outcome.options) IN
            IF valid = {} THEN outcome.value = 0
            ELSE LET first == CHOOSE i \in valid : \A j \in valid : i <= j IN
                     Denotes(stageReplies[first].value, outcome.value + 1)

\* Two entries on the menu; "abc" and "3" came before "2" and "1".
C18_Witness ==
    /\ outcome.stage = "location"
    /\ outcome.options = 2
    /\ MapValues(stageReplies) = <<<<"a", "b", "c">>, <<"3">>, <<"2">>, <<"1">>>>
    /\ outcome.value = 1

\* The replies that are an integer of 1..count, in their order of arrival.
ValidOnly(values, count) ==
    SelectSeq(values, LAMBDA t : \E k \in 1..count : Denotes(t, k))

\* C19: for the rounded mean and for the first valid choice, the resolved
\* index is the one the valid replies alone resolve to: malformed and
\* out-of-range replies, however many and wherever they stand in the
\* arrival order, do not change it; and whenever some reply is valid the
\* index lies between the least and the greatest valid choice, it is not
\* the stage default.
C19_InvalidRepliesIgnored ==
    outcome.stage \in {"date", "location", "restaurant"} =>
        LET values == MapValues(stageReplies)
            count == outcome.options
            Resolve(v) == IF outcome.stage = "date" THEN MeanChoice(v, count)
                          ELSE FirstChoice(v, count)
            valid == ValidReplies(count)
        IN /\ Resolve(ValidOnly(values, count)) = outcome.value
           /\ valid # {} =>
                 \E i, j \in valid, a, b \in 1..count :
                    /\ Denotes(values[i], a) /\ Denotes(values[j], b)
                    /\ a <= outcome.value + 1 /\ outcome.value + 1 <= b

\* "abc" came first and "12" between the valid replies "2" and "3"; the
\* date stage resolved to the third date.
C19_Witness ==
    /\ outcome.stage = "date"
    /\ MapValues(stageReplies) = <<<<"a", "b", "c">>, <<"2">>, <<"1", "2">>, <<"3">>>>
    /\ outcome.value = 2

\* C20: the budget stage resolves to high when some reply holds "high" in
\* any case, else to low when some reply holds "low" in any case, else
\* (also with no reply) to medium; a "low" reply next to a "high" reply
\* gives high.
C20_BudgetTier ==
    outcome.stage = "budget" =>
        LET values == MapValues(stageReplies)
            high == \E i \in 1..Len(values) :
                       ContainsWord(values[i], WordHigh, <<"H", "I", "G", "H">>)
            low == \E i \in 1..Len(values) :
                      ContainsWord(values[i], WordLow, <<"L", "O", "W">>)
        IN outcome.value = (IF high THEN "high" ELSE IF low THEN "low" ELSE "medium")

\* "low" came first, "High" second.
C20_Witness ==
    /\ outcome.stage = "budget"
    /\ MapValues(stageReplies) = <<<<"l", "o", "w">>, <<"H", "i", "g", "h">>>>
    /\ outcome.value = "high"

\* ---------------------------------------------------------------- C21
\* The default of a stage, as documented: the first option for the stages
\* answered by a number, the weather's suggestion and American for the
\* free-text stages, medium for the budget, and a plan that is not
\* confirmed when nobody answered the confirmation.
StageDefault(s, res) ==
    CASE s \in {"date", "location", "restaurant"} -> 0
      [] s = "activity" -> <<res["weather"]>>
      [] s = "cuisine" -> <<American>>
      [] s = "budget" -> "medium"
      [] s = "confirmation" -> [confirmed |-> FALSE, responses |-> <<>>]

\* C21: a wait that reaches its deadline with no reply returns to the
\* planner, which goes on to its next statement with nothing thrown; and
\* every stage whose collection holds no reply resolves to the default of
\* that stage, the planner again going on with nothing thrown.
C21_SilentStageDefaults ==
    [][/\ (waitpc = "check" /\ collected[Current.tag] = <<>> /\ clock > StageTimeout
              /\ collected' = collected)
           => (waitpc' = "none" /\ step' = step + 1 /\ session' = "running"
                 /\ fatal' = NoFault)
       /\ (session = "running" /\ Current.op = "parse"
              /\ collected[Current.tag] = <<>>)
           => (/\ resolved' = Put(resolved, Current.tag,
                                   StageDefault(Current.tag, results))
               /\ step' = step + 1 /\ session' = "running" /\ fatal' = NoFault)
      ]_vars

\* A session in which nobody ever answered ran to process.exit(0): every
\* stage holds its default, the request for changes was sent.
C21_Witness ==
    /\ session = "exit0"
    /\ resolved["date"] = 0 /\ resolved["location"] = 0 /\ resolved["restaurant"] = 0
    /\ resolved["activity"] \in {<<Outdoor>>, <<Indoor>>}
    /\ resolved["cuisine"] = <<American>>
    /\ resolved["budget"] = "medium"
    /\ resolved["confirmation"] = [confirmed |-> FALSE, responses |-> <<>>]
    /\ channel[Len(channel)] = [kind |-> "final", tag |-> NEEDS_CHANGES]

\* ---------------------------------------------------------------- C22
\* This step put the prompt of stage s on the channel.
PromptSent(s) == channel' = Append(channel, [kind |-> "prompt", tag |-> s])

\* The stages before s in the order of the pipeline.
Earlier(s) == {e \in StageSet : StageIndex(e) < StageIndex(s)}

\* The collection of stage e has returned and its replies wait to be parsed.
Returned(e) == e \in DOMAIN collected /\ waitpc = "none"

\* At most one watcher, and a watcher exactly while a wait runs.
OneSubscription ==
    /\ subscriptions <= 1
    /\ (subscriptions = 1) <=> (waitpc # "none")

\* While the session runs, what a stage resolved to stays what it is.
ValuesKept ==
    session' = "running" =>
        \A s \in DOMAIN resolved : s \in DOMAIN resolved' /\ resolved'[s] = resolved[s]

SessionEnded ==
    \/ session = "exit0" /\ "confirmation" \in DOMAIN resolved
    \/ session \in {"exit1", "rejected"}

\* C23: with the sends, the collaborator calls and the timers settling,
\* every run of the pipeline reaches its end (no wait is left running),
\* whether or not anybody replies.
C23_PipelineEnds == <>(SessionEnded /\ waitpc = "none" /\ subscriptions = 0)

\* All seven questions were asked, nobody replied to the last one, and the
\* run ended with process.exit(0).
C23_Witness ==
    /\ session = "exit0"
    /\ Cardinality({i \in 1..Len(channel) : channel[i].kind = "prompt"}) = Len(Stages)
    /\ resolved["confirmation"].responses = <<>>

\* ---------------------------------------------------------------- C24
\* The places of the apology on the channel.
Apologies == {i \in 1..Len(channel) : channel[i].kind = "apology"}

\* C24: a session that met a fatal condition and is over has put exactly
\* one apology on the channel, and nothing after it: no final plan and no
\* confirmation message follows the fatal condition.
C24_OneApology ==
    (fatal # NoFault /\ session \in {"exit1", "rejected"}) =>
        /\ Cardinality(Apologies) = 1
        /\ channel[Len(channel)].kind = "apology"
        /\ \A i \in 1..Len(channel) : channel[i].kind # "final"

\* ---------------------------------------------------------------- C25
\* The prompts on the channel, in the order they were sent.
Prompts == SelectSeq(channel, LAMBDA msg : msg.kind = "prompt")

\* C25: when the send of a stage's prompt fails, the call throws into the
\* planner's catch with no watcher started and no response map for the
\* stage; from then on no statement of the pipeline runs, no watcher is
\* started, no reply is recorded and no further prompt is sent: the only
\* message that may still go out is the apology.
C25_PromptFailureAborts ==
    [][/\ (session = "running" /\ Current.op = "ask" /\ waitpc = "none"
              /\ channel' = channel)
           => (/\ session' = "catch" /\ fatal' = [cause |-> "prompt"]
               /\ subscriptions' = 0 /\ waitpc' = "none"
               /\ Current.tag \notin DOMAIN collected'
               /\ step' = step)
       /\ (fatal.cause = "prompt")
           => (/\ step' = step /\ subscriptions' = 0 /\ waitpc' = "none"
               /\ collected' = <<>> /\ resolved' = resolved
               /\ session' \in {"catch", "exit1", "rejected"}
               /\ \/ channel' = channel
                  \/ channel' = Append(channel, [kind |-> "apology", tag |-> APOLOGY]))
      ]_vars

\* The prompt of the location stage could not be sent: date and activity
\* were asked, no other stage was, and the session ended in the catch.
C25_Witness ==
    /\ session = "exit1"
    /\ fatal = [cause |-> "prompt"]
    /\ Current = [op |-> "ask", tag |-> "location"]
    /\ [i \in 1..Len(Prompts) |-> Prompts[i].tag] = <<"date", "activity">>
    /\ subscriptions = 0 /\ collected = <<>>
    /\ channel[Len(channel)].kind = "apology"

\* ---------------------------------------------------------------- C26
\* The planning collaborators whose responses are parsed.
PlanningCollaborators == {"location", "restaurant", "transportation"}

\* C26: a session that a planning collaborator's malformed response sent
\* into the catch got there after exactly one repair of that response
\* (the truncation after the last closing brace, and a second parse) that
\* failed too, whichever of the three collaborators it was: a response
\* the repair mends is not fatal.
C26_OneRepairThenFatal ==
    (fatal.cause = "collaborator" /\ fatal.agent \in PlanningCollaborators) =>
        /\ fatal.repairs = 1
        /\ ~WellFormed(Truncate(fatal.content))

\* ---------------------------------------------------------------- C27
\* This step resolved the exchange of the pending callback p, and the
\* exchange failed.
ExchangeFailed(p) == p \in pending /\ pending' = pending \ {p} /\ ~stored'

C28_NoSuccessAfterTimeout ==
    (waitOutcome = "timeout" /\ wpc \notin {"idle", "check", "sleep", "done"}) =>
        wpc = NOT_ENOUGH

\* ---------------------------------------------------------------- C29
\* The affirmative replies among those recorded so far.
AffirmativeRecorded == {i \in 1..Len(responses) : Affirmative(responses[i].value)}

\* C29: a poll of askConfirmation that finds at least one recorded reply
\* ends the collection at once: the watcher is stopped and the decision
\* is the majority test on the replies recorded at that poll; from then on
\* the call hears nothing (no watcher) and its decision stays what it is.
C29_FirstReplyDecides ==
    [][/\ (/\ pc = "check" /\ pc' # "check" /\ kind = "confirmation"
           /\ Cardinality(respondedParticipants) >= 1)
           => (/\ pc' = "returned" /\ exitReason' = "enough" /\ ~watching'
               /\ result' = responses
               /\ confirmation'.confirmed
                     <=> (2 * Cardinality(AffirmativeRecorded) >= Len(participants))
               /\ Len(confirmation'.responses) = Len(responses))
       /\ (pc = "returned" /\ kind = "confirmation" /\ stage' = stage)
           => (~watching /\ confirmation' = confirmation /\ result' = result)
      ]_vars

\* One "Yes" of a roster of four was recorded before the first poll: the
\* call returned at once, not confirmed, with the watcher stopped while
\* other replies could still have come.
C29_Witness ==
    /\ pc = "returned" /\ kind = "confirmation"
    /\ exitReason = "enough" /\ elapsed = 0
    /\ Len(participants) = 4
    /\ Len(result) = 1 /\ result[1].value = TextYes
    /\ ~confirmation.confirmed
    /\ ~watching /\ delivered < MaxMsgs

\* ---------------------------------------------------------------- C30
\* The wait has not returned yet.
WaitRunning == wpc \in {"check", "sleep"}

\* C30: a wait that runs has no outcome; the poll that ends it gives it
\* one outcome, "quorum" or "timeout", that never changes afterwards; the
\* outcome is "timeout" exactly when fewer than minRequired members of
\* the roster are connected at that poll (and then the deadline has
\* passed), so a quorum seen at a poll after the deadline is a quorum;
\* and every wait ends.
C30_OneTerminalOutcome ==
    /\ []((wpc = "idle" \/ WaitRunning) => waitOutcome = "none")
    /\ [](~(wpc = "idle" \/ WaitRunning) => waitOutcome \in {"quorum", "timeout"})
    /\ [][(WaitRunning /\ ~WaitRunning') =>
             /\ wpc = "check" /\ wpc' = "done"
             /\ (waitOutcome' = "timeout")
                   <=> (Cardinality(RosterConnected) < minRequired)
             /\ (waitOutcome' = "quorum")
                   <=> (Cardinality(RosterConnected) >= minRequired)
             /\ (waitOutcome' = "timeout") => (wElapsed > wTimeout)]_vars
    /\ [][(waitOutcome # "none") => (waitOutcome' = waitOutcome)]_vars
    /\ WaitRunning ~> ~WaitRunning

\* The second member of a roster of three connected after the deadline
\* had passed and before the next poll: the wait ended with the quorum.
C30_Witness ==
    /\ wpc = "done"
    /\ waitOutcome = "quorum"
    /\ wElapsed > wTimeout
    /\ Len(expectedParticipants) = 3
    /\ Cardinality(RosterConnected) = minRequired

\* ---------------------------------------------------------------- C31
\* How often choice v occurs among the valid choices cs.
Occurrences(cs, v) == Cardinality({i \in 1..Len(cs) : cs[i] = v})

\* The choices no other choice occurs more often than.
MostCommon(cs) ==
    {v \in Range(cs) : \A w \in Range(cs) : Occurrences(cs, w) <= Occurrences(cs, v)}

\* C31: the date startPlanning resolves is a most common valid choice among
\* the replies, and option 1 (index 0) when no reply is valid.
C31_MostCommonChoice ==
    outcome.stage = "slot" =>
        LET choices == ValidChoices(MapValues(stageReplies), SlotChoices) IN
            IF choices = <<>> THEN outcome.value = 0
            ELSE outcome.value + 1 \in MostCommon(choices)

\* ---------------------------------------------------------------- C37
\* C37: with one to three available slots the index startPlanning resolves
\* is smaller than the number of slots offered to the group.
C37_ChosenSlotOffered ==
    (outcome.stage = "slot" /\ outcome.available <= OfferedSlots) =>
        outcome.value < outcome.options

\* ---------------------------------------------------------------- C38
\* Every reply is one of the words high, low and medium, in any case.
BuiltFromWords(values) ==
    \A i \in 1..Len(values) :
        ToLowerCase(values[i]) \in {WordHigh, WordLow, <<"m", "e", "d", "i", "u", "m">>}

\* C38: on replies built from the words high, low and medium the tier a
\* budget step resolved is the tier each of the three classifiers (clean
\* planner, simple trial, analyzeBudget) gives for the same replies.
C38_ClassifiersAgree ==
    (outcome.stage = "budget" /\ BuiltFromWords(MapValues(stageReplies))) =>
        /\ outcome.value = Budget(MapValues(stageReplies))
        /\ outcome.value = TrialBudgetOf(MapValues(stageReplies))
        /\ outcome.value = AnalyzeBudgetOf(MapValues(stageReplies))

\* ---------------------------------------------------------------- C36
\* Some reply of the stage parses to a number outside 1..count.
OutOfRangeReply(count) ==
    \E i \in 1..Len(stageReplies) :
        LET c == ParseInt(Trim(stageReplies[i].value)) IN ~c.nan /\ ~InRange(c, count)

\* C36: the index a numeric aggregation of the clean planner resolved (date,
\* location, restaurant) lies in 0..optionCount - 1 whenever at least one
\* option was offered, whatever the replies were.
C36_IndexOffered ==
    (outcome.stage \in {"date", "location", "restaurant"} /\ outcome.options >= 1) =>
        outcome.value \in 0..(outcome.options - 1)

\* A location stage with two options where one reply chose the missing
\* option 3 and a later one the last offered option.
C36_Witness ==
    /\ outcome.stage = "location"
    /\ outcome.options = 2
    /\ OutOfRangeReply(2)
    /\ outcome.value = 1

\* ---------------------------------------------------------------- C33
\* C33: at a poll of waitForResponses the response check comes before the
\* deadline check: a poll that finds a recorded reply after the timeout has
\* elapsed ends by the loop condition and returns that reply, and a
\* collection returns the empty map only from a poll that found no reply
\* recorded.
C33_ResponsesBeforeDeadline ==
    [][(pc = "check" /\ pc' # "check") =>
          /\ (Cardinality(respondedParticipants) >= MinResponses /\ elapsed > timeout)
                => (/\ pc' = "returned" /\ exitReason' = "enough"
                    /\ result' = responses /\ result' # <<>>)
          /\ (pc' = "returned" /\ result' = <<>>)
                => (responses = <<>> /\ exitReason' = "timeout")]_vars

\* A collection that returned a reply from a poll made after its timeout
\* had elapsed.
C33_Witness ==
    /\ pc = "returned"
    /\ elapsed > timeout
    /\ exitReason = "enough"
    /\ result # <<>>

NotificationFailed(p) ==
    /\ p \in pending /\ pending' = pending \ {p} /\ stored'
    /\ notifyConfigured /\ notifications' = notifications

\* C35: when the exchange made for a participant succeeds and the
\* notification that follows fails, the participant's record is stored all
\* the same, with the credentials of this callback, the records of the
\* others are kept, and a participant of the roster counts as connected
\* from then on.
C35_FailedNotificationKeepsRecord ==
    [][\A p \in pending :
         NotificationFailed(p) =>
            /\ connections' = StoreConnection(connections, p.email, p.code)
            /\ p.email \in DOMAIN connections'
            /\ p.email \in Range(expectedParticipants) =>
                 p.email \in Range(Connected(expectedParticipants, connections'))]_vars

\* A wait that needed connections ended by quorum although no exchange
\* that succeeded could be announced to the group.
C35_Witness ==
    /\ notifyConfigured
    /\ notifications = <<>>
    /\ wpc = "done"
    /\ waitOutcome = "quorum"
    /\ minRequired >= 1
    /\ Cardinality(RosterConnected) >= minRequired

\* ---------------------------------------------------------------- C32
\* The instant a returned slot starts at, read back from its date and time.
StartOf(slot) == slot.date * Day + slot.start

\* The interval [s, s + d) meets the busy period b.
Meets(s, d, b) == s < b.end /\ b.start < s + d

\* C32: every slot findCommonFreeSlots returned lies inside the window
\* [startDate, endDate] with its whole duration and meets no busy period of
\* any calendar, also when periods of different calendars overlap or nest.
C32_SlotsFreeForAll ==
    freeTime.source = "calendar" =>
        \A k \in 1..Len(freeTime.availableSlots) :
            LET s == StartOf(freeTime.availableSlots[k]) IN
                /\ query.startDate <= s
                /\ s + query.duration <= query.endDate
                /\ \A c \in 1..Len(query.calendars) :
                     \A i \in 1..Len(query.calendars[c]) :
                        ~Meets(s, query.duration, query.calendars[c][i])
====
